---- MODULE Spec2Model ----
(***************************************************************************)
(* Model of the FCE correction server (src/backend/FCEServer/              *)
(* fastapi_server.py): tokenizer, difflib alignment, edit extraction,      *)
(* error attribution (classifier with heuristic fallback), feedback        *)
(* lookup and scoring.                                                     *)
(*                                                                         *)
(* Texts are sequences of one-character strings.  Python's None is the     *)
(* empty tuple None and a present text t is the one-element tuple Some(t). *)
(* Token indices in opcodes are 0-based half-open ranges, as in difflib.   *)
(* A Python loop is Iterate over its index range with the loop's locals as *)
(* the state record.                                                       *)
(***************************************************************************)
EXTENDS Integers, Sequences, FiniteSets, TLC

\* ------------------------------------------------------------------------
\* Generic helpers
\* ------------------------------------------------------------------------

Range(s) == {s[k] : k \in DOMAIN s}

Min(S) == CHOOSE x \in S : \A y \in S : x <= y

Max(S) == CHOOSE x \in S : \A y \in S : x >= y

None == <<>>

Some(t) == <<t>>

\* Python slice seq[lo:hi] with 0-based half-open bounds
Slice(seq, lo, hi) == SubSeq(seq, lo + 1, hi)

\* for k in lo..hi: st = Step(k, st).  The range is split in halves and the
\* left half is evaluated before the right one starts, which keeps the
\* evaluation depth logarithmic in the number of iterations.
Iterate(Step(_, _), lo, hi, init) ==
  LET RECURSIVE Run(_, _, _)
      Run(l, h, st) ==
        IF l > h THEN st
        ELSE IF l = h THEN Step(l, st)
        ELSE LET m == (l + h) \div 2
                 left == Run(l, m, st)
             IN  IF left = left THEN Run(m + 1, h, left) ELSE left
  IN  Run(lo, hi, init)

\* ------------------------------------------------------------------------
\* Characters
\* ------------------------------------------------------------------------

LowerSeq ==
  << "a", "b", "c", "d", "e", "f", "g", "h", "i", "j", "k", "l", "m",
     "n", "o", "p", "q", "r", "s", "t", "u", "v", "w", "x", "y", "z" >>

UpperSeq ==
  << "A", "B", "C", "D", "E", "F", "G", "H", "I", "J", "K", "L", "M",
     "N", "O", "P", "Q", "R", "S", "T", "U", "V", "W", "X", "Y", "Z" >>

Digits == {"0", "1", "2", "3", "4", "5", "6", "7", "8", "9"}

\* [A-Za-z]
Letters == Range(LowerSeq) \cup Range(UpperSeq)

IsLetter(c) == c \in Letters

\* \d
IsDigit(c) == c \in Digits

\* \s
IsSpace(c) == c \in {" ", "\t", "\n", "\r"}

\* \w
IsWordChar(c) == IsLetter(c) \/ IsDigit(c) \/ c = "_"

\* str.lower() on one character
LowerChar(c) ==
  IF \E k \in DOMAIN UpperSeq : UpperSeq[k] = c
    THEN LowerSeq[CHOOSE k \in DOMAIN UpperSeq : UpperSeq[k] = c]
    ELSE c

\* str.lower()
Lower(s) == [k \in DOMAIN s |-> LowerChar(s[k])]

\* str.strip(): drop leading and trailing whitespace
Strip(s) ==
  LET keep == {k \in DOMAIN s : ~IsSpace(s[k])}
  IN  IF keep = {} THEN <<>> ELSE SubSeq(s, Min(keep), Max(keep))

\* str.endswith(suffix)
EndsWith(s, suffix) ==
  /\ Len(s) >= Len(suffix)
  /\ SubSeq(s, Len(s) - Len(suffix) + 1, Len(s)) = suffix

\* str.replace(old, new): the leftmost non-overlapping occurrences of old,
\* scanning from the left; st.p is the next position to look at
Replace(s, old, new) ==
  Iterate(LAMBDA k, st :
            IF k # st.p THEN st
            ELSE IF k + Len(old) - 1 <= Len(s) /\ SubSeq(s, k, k + Len(old) - 1) = old
              THEN [p |-> k + Len(old), out |-> st.out \o new]
              ELSE [p |-> k + 1, out |-> Append(st.out, s[k])],
          1, Len(s), [p |-> 1, out |-> <<>>]).out

\* " ".join(tokens)
JoinSpace(tokens) ==
  Iterate(LAMBDA k, st : IF k = 1 THEN tokens[k] ELSE st \o <<" ">> \o tokens[k],
          1, Len(tokens), <<>>)

\* ------------------------------------------------------------------------
\* Tokenizer: re.findall(r"[A-Za-z]+(?:'[A-Za-z]+)?|\d+|[^\w\s]", text)
\* ------------------------------------------------------------------------

\* length of the maximal run of letters starting at position p
LetterRun(s, p) ==
  Min({q \in p .. Len(s) + 1 : q = Len(s) + 1 \/ ~IsLetter(s[q])}) - p

\* length of the maximal run of digits starting at position p
DigitRun(s, p) ==
  Min({q \in p .. Len(s) + 1 : q = Len(s) + 1 \/ ~IsDigit(s[q])}) - p

\* length of the regex match attempted at position p (0: no match here)
MatchLen(s, p) ==
  LET c == s[p]
  IN  IF IsLetter(c)
        THEN LET n == LetterRun(s, p)
                 q == p + n
                 m == IF q <= Len(s) /\ s[q] = "'" THEN LetterRun(s, q + 1) ELSE 0
             IN  IF m > 0 THEN n + 1 + m ELSE n
      ELSE IF IsDigit(c) THEN DigitRun(s, p)
      ELSE IF ~IsWordChar(c) /\ ~IsSpace(c) THEN 1
      ELSE 0

\* findall scans left to right; a position with no match is skipped
wp_tokenize(text) ==
  Iterate(LAMBDA k, st :
            IF k # st.p THEN st
            ELSE LET n == MatchLen(text, k)
                 IN  IF n = 0 THEN [p |-> k + 1, out |-> st.out]
                     ELSE [p |-> k + n, out |-> Append(st.out, SubSeq(text, k, k + n - 1))],
          1, Len(text), [p |-> 1, out |-> <<>>]).out

\* ------------------------------------------------------------------------
\* Aligner: difflib.SequenceMatcher(None, a, b).get_opcodes()
\* (isjunk is None, so the junk set is empty; autojunk is on by default)
\* ------------------------------------------------------------------------

\* __chain_b: elements of b occurring more than n // 100 + 1 times, n >= 200
Popular(b) ==
  IF Len(b) >= 200
    THEN {x \in Range(b) :
            Cardinality({k \in DOMAIN b : b[k] = x}) > (Len(b) \div 100) + 1}
    ELSE {}

\* b2j.get(x, nothing): the 0-based indices of x in b, none for a popular x
B2J(b, x) ==
  IF x \in Popular(b) THEN {} ELSE {j \in 0 .. Len(b) - 1 : b[j + 1] = x}

\* One row i of the main loop of find_longest_match.  st.j2len maps the end
\* index j of a common run ending at (i-1, j) to its length; st.best is
\* <<besti, bestj, bestsize>>, replaced only by a strictly longer run, the
\* first one met in increasing j.  newj2len is the row's new map and kmax
\* the longest run it holds.
RowBest(i, best, newj2len, kmax) ==
  IF kmax > best[3]
    THEN <<i - kmax + 1, Min({j \in DOMAIN newj2len : newj2len[j] = kmax}) - kmax + 1, kmax>>
    ELSE best

RowResult(i, best, newj2len) ==
  [j2len |-> newj2len,
   best  |-> IF DOMAIN newj2len = {} THEN best
             ELSE RowBest(i, best, newj2len,
                          Max({newj2len[j] : j \in DOMAIN newj2len}))]

ScanRow(a, b, blo, bhi, i, st) ==
  RowResult(i, st.best,
            [j \in {j \in B2J(b, a[i + 1]) : blo <= j /\ j < bhi} |->
               (IF (j - 1) \in DOMAIN st.j2len THEN st.j2len[j - 1] ELSE 0) + 1])

\* first extension loop: grow match m to the left over equal elements
ExtendLeft(a, b, alo, blo, m) ==
  LET d == Max({d \in 0 .. Min({m[1] - alo, m[2] - blo}) :
                  \A e \in 1 .. d : a[m[1] - e + 1] = b[m[2] - e + 1]})
  IN  <<m[1] - d, m[2] - d, m[3] + d>>

\* second extension loop: grow match m to the right over equal elements
ExtendRight(a, b, ahi, bhi, m) ==
  LET d == Max({d \in 0 .. Min({ahi - (m[1] + m[3]), bhi - (m[2] + m[3])}) :
                  \A e \in 1 .. d : a[m[1] + m[3] + e] = b[m[2] + m[3] + e]})
  IN  <<m[1], m[2], m[3] + d>>

\* an aligner that never finds a common run
NoMatch(a, b, alo, ahi, blo, bhi) == <<alo, blo, 0>>

find_longest_match(a, b, alo, ahi, blo, bhi) ==
  ExtendRight(a, b, ahi, bhi,
    ExtendLeft(a, b, alo, blo,
      Iterate(LAMBDA i, st : ScanRow(a, b, blo, bhi, i, st),
              alo, ahi - 1, [j2len |-> <<>>, best |-> <<alo, blo, 0>>]).best))

\* One turn of the work-queue loop of get_matching_blocks (a no-op once the
\* queue is empty): pop the last window w = <<alo, ahi, blo, bhi>>, record
\* its longest match x = <<i, j, k>> and push the windows left and right
\* of it.
QueueTurn(rest, blocks, w, x) ==
  IF x[3] = 0 THEN [queue |-> rest, blocks |-> blocks]
  ELSE [queue  |-> rest
                    \o (IF w[1] < x[1] /\ w[3] < x[2]
                          THEN << <<w[1], x[1], w[3], x[2]>> >> ELSE <<>>)
                    \o (IF x[1] + x[3] < w[2] /\ x[2] + x[3] < w[4]
                          THEN << <<x[1] + x[3], w[2], x[2] + x[3], w[4]>> >> ELSE <<>>),
        blocks |-> Append(blocks, x)]

QueuePop(a, b, rest, blocks, w) ==
  QueueTurn(rest, blocks, w, find_longest_match(a, b, w[1], w[2], w[3], w[4]))

QueueStep(a, b, st) ==
  IF st.queue = <<>> THEN st
  ELSE QueuePop(a, b, SubSeq(st.queue, 1, Len(st.queue) - 1), st.blocks,
                st.queue[Len(st.queue)])

\* tuple order of Python on <<i, j, k>>
BlockLess(x, y) ==
  \/ x[1] < y[1]
  \/ x[1] = y[1] /\ x[2] < y[2]
  \/ x[1] = y[1] /\ x[2] = y[2] /\ x[3] < y[3]

\* matching_blocks.sort() (the blocks are pairwise distinct)
SortBlocks(blocks) ==
  [n \in 1 .. Len(blocks) |->
     CHOOSE x \in Range(blocks) :
       Cardinality({y \in Range(blocks) : BlockLess(y, x)}) = n - 1]

\* One turn of the second loop of get_matching_blocks: collapse adjacent
\* blocks.  st.cur is <<i1, j1, k1>>.
MergeStep(nxt, st) ==
  IF st.cur[1] + st.cur[3] = nxt[1] /\ st.cur[2] + st.cur[3] = nxt[2]
    THEN [cur |-> <<st.cur[1], st.cur[2], st.cur[3] + nxt[3]>>, out |-> st.out]
    ELSE [cur |-> nxt,
          out |-> IF st.cur[3] # 0 THEN Append(st.out, st.cur) ELSE st.out]

\* the first loop: every window pushed on the queue holds a match of its
\* own, so the queue is empty after at most 2 * min(la, lb) + 1 turns
FoundBlocks(a, b) ==
  Iterate(LAMBDA n, st : QueueStep(a, b, st),
          1, 2 * Min({Len(a), Len(b)}) + 1,
          [queue |-> << <<0, Len(a), 0, Len(b)>> >>, blocks |-> <<>>]).blocks

\* the second loop over the sorted blocks, and what follows it
MergeEnd(merged) ==
  IF merged.cur[3] # 0 THEN Append(merged.out, merged.cur) ELSE merged.out

MergeBlocks(sorted) ==
  MergeEnd(Iterate(LAMBDA n, st : MergeStep(sorted[n], st),
                   1, Len(sorted), [cur |-> <<0, 0, 0>>, out |-> <<>>]))

get_matching_blocks(a, b) ==
  MergeBlocks(SortBlocks(FoundBlocks(a, b))) \o << <<Len(a), Len(b), 0>> >>

Opcode(tag, i1, i2, j1, j2) == [tag |-> tag, i1 |-> i1, i2 |-> i2, j1 |-> j1, j2 |-> j2]

\* One turn of the loop of get_opcodes over the matching blocks
OpcodeTag(i, j, ai, bj) ==
  IF i < ai /\ j < bj THEN "replace"
  ELSE IF i < ai THEN "delete"
  ELSE IF j < bj THEN "insert"
  ELSE ""

\* a turn of the loop that forgets the "equal" opcode of the block
OpcodeStepGaps(block, st) ==
  [i |-> block[1] + block[3],
   j |-> block[2] + block[3],
   answer |-> st.answer
                \o (IF OpcodeTag(st.i, st.j, block[1], block[2]) # ""
                      THEN <<Opcode(OpcodeTag(st.i, st.j, block[1], block[2]),
                                    st.i, block[1], st.j, block[2])>>
                      ELSE <<>>)]

OpcodeStep(block, st) ==
  [i |-> block[1] + block[3],
   j |-> block[2] + block[3],
   answer |-> st.answer
                \o (IF OpcodeTag(st.i, st.j, block[1], block[2]) # ""
                      THEN <<Opcode(OpcodeTag(st.i, st.j, block[1], block[2]),
                                    st.i, block[1], st.j, block[2])>>
                      ELSE <<>>)
                \o (IF block[3] # 0
                      THEN <<Opcode("equal", block[1], block[1] + block[3],
                                    block[2], block[2] + block[3])>>
                      ELSE <<>>)]

OpcodesOf(blocks) ==
  Iterate(LAMBDA n, st : OpcodeStep(blocks[n], st),
          1, Len(blocks), [i |-> 0, j |-> 0, answer |-> <<>>]).answer

get_opcodes(a, b) == OpcodesOf(get_matching_blocks(a, b))

\* ------------------------------------------------------------------------
\* Taxonomy, feedback table, classifier
\* ------------------------------------------------------------------------

\* the set without "an"
ArticlesNoAn == { <<"a">>, <<"t", "h", "e">> }

ARTICLES == { <<"a">>, <<"a", "n">>, <<"t", "h", "e">> }

\* MICRO_FEEDBACK (tips in ASCII)
MICRO_FEEDBACK ==
  ( "agreement/plural" :>
      "Check agreement (subject-verb and singular/plural nouns). For 3rd person singular, use 'does/has/is' and add -s where needed." ) @@
  ( "articles/determiners" :>
      "Check articles and determiners (a/an/the/your). Use them when needed and remove extra ones." ) @@
  ( "verb tense/form" :>
      "Check verb tense and verb form (e.g., past vs present, infinitive vs -ing)." ) @@
  ( "prepositions" :> "Check the preposition choice (e.g., 'in July' not 'on July')." ) @@
  ( "spelling" :> "Fix spelling mistakes." ) @@
  ( "word choice/form" :> "Use the correct word or word form for the meaning." ) @@
  ( "missing word" :>
      "A word is missing-add the word needed for a complete/grammatical phrase." ) @@
  ( "unnecessary word" :> "Remove extra words that aren't needed." ) @@
  ( "punctuation" :> "Fix punctuation (commas, full stops, capitalization)." ) @@
  ( "word order" :> "Adjust word order to match natural English structure." ) @@
  ( "other" :> "Review this part for grammar/usage." )

\* MICRO_FEEDBACK of the error-tagger trainer (tips in ASCII)
TRAIN_MICRO_FEEDBACK ==
  ( "agreement/plural" :>
      "Match singular/plural forms (e.g., plural nouns usually need 'are', not 'is')." ) @@
  ( "articles/determiners" :>
      "Check articles and determiners (a/an/the/your). Use them when needed and remove extra ones." ) @@
  ( "verb tense/form" :>
      "Check verb tense and verb form (e.g., past vs present, infinitive vs -ing)." ) @@
  ( "prepositions" :> "Check the preposition choice (e.g., 'in July' not 'on July')." ) @@
  ( "spelling" :> "Fix spelling mistakes." ) @@
  ( "word choice/form" :>
      "Use the correct word or word form for the meaning (e.g., excited vs exciting)." ) @@
  ( "missing word" :>
      "A word is missing-add the word needed for a complete/grammatical phrase." ) @@
  ( "unnecessary word" :> "Remove extra words that aren't needed." ) @@
  ( "punctuation" :> "Fix punctuation (commas, full stops, capitalization)." ) @@
  ( "word order" :> "Adjust word order to match natural English structure." ) @@
  ( "other" :> "Review this part for grammar/usage." )

\* FCE_TO_FRIENDLY of the error-tagger trainer: fine-grained code -> label
FCE_TO_FRIENDLY ==
  ( "AGN" :> "agreement/plural" ) @@ ( "AGV" :> "agreement/plural" ) @@
  ( "AGA" :> "agreement/plural" ) @@
  ( "MD" :> "articles/determiners" ) @@ ( "MA" :> "articles/determiners" ) @@
  ( "DD" :> "articles/determiners" ) @@ ( "UA" :> "articles/determiners" ) @@
  ( "TV" :> "verb tense/form" ) @@ ( "FV" :> "verb tense/form" ) @@
  ( "RV" :> "verb tense/form" ) @@ ( "UV" :> "verb tense/form" ) @@
  ( "RT" :> "prepositions" ) @@
  ( "S" :> "spelling" ) @@
  ( "RJ" :> "word choice/form" ) @@ ( "RN" :> "word choice/form" ) @@
  ( "FN" :> "word choice/form" ) @@ ( "R" :> "word choice/form" ) @@
  ( "ID" :> "word choice/form" ) @@
  ( "MT" :> "missing word" ) @@ ( "UT" :> "unnecessary word" ) @@
  ( "RP" :> "punctuation" ) @@ ( "MP" :> "punctuation" ) @@
  ( "UP" :> "punctuation" ) @@
  ( "W" :> "word order" )

\* The classes of the classifier the trainer fits and uploads: the labels y
\* of build_error_type_examples, FCE_TO_FRIENDLY.get(code, "other")
ClfClasses == {FCE_TO_FRIENDLY[c] : c \in DOMAIN FCE_TO_FRIENDLY} \cup {"other"}

\* labels left as the fine-grained codes of the corpus
FriendlyRaw(fce_code) == fce_code

\* FCE_TO_FRIENDLY.get(fce_code, "other")
Friendly(fce_code) ==
  IF fce_code \in DOMAIN FCE_TO_FRIENDLY THEN FCE_TO_FRIENDLY[fce_code] ELSE "other"

\* fine-grained codes of the corpus in a fixed order, one unmapped code last
FceCodeSeq ==
  << "AGN", "MD", "TV", "RT", "S", "RJ", "MT", "UT", "RP", "W", "AGV", "AGA",
     "MA", "DD", "UA", "FV", "RV", "UV", "RN", "FN", "R", "ID", "MP", "UP", "UNKNOWN" >>

\* The classifier objects joblib.load may return, by behaviour of predict:
\* clf_ok always answers, clf_raises always raises, clf_flaky raises on some
\* texts and answers on the others.
ClfIds == {"clf_ok", "clf_raises", "clf_flaky"}

\* error_clf.predict([x])[0]: an exception, or the label the fitted pipeline
\* gives the text x (one of the labels it was trained on, fixed by x)
Predict(clf, x) ==
  IF clf = "clf_raises" \/ (clf = "clf_flaky" /\ Len(x) % 2 = 1)
    THEN [raised |-> TRUE, label |-> ""]
    ELSE [raised |-> FALSE,
          label  |-> Friendly(FceCodeSeq[((Len(x) + Cardinality(Range(x))) % Len(FceCodeSeq)) + 1])]

\* ------------------------------------------------------------------------
\* Attribution and feedback
\* ------------------------------------------------------------------------

\* Python truthiness of an optional text: None and "" are falsy
Truthy(x) == x # None /\ x[1] # <<>>

\* x or ""
OrEmpty(x) == IF Truthy(x) THEN x[1] ELSE <<>>

\* the lookup without its default
MicroFeedbackNoDefault(error_type) ==
  IF error_type \in DOMAIN MICRO_FEEDBACK THEN MICRO_FEEDBACK[error_type] ELSE ""

_micro_feedback_for(error_type) ==
  IF error_type \in DOMAIN MICRO_FEEDBACK
    THEN MICRO_FEEDBACK[error_type]
    ELSE MICRO_FEEDBACK["other"]

\* the encoding without "or": a missing side is formatted as None
NormalizePairRaw(frm, to) ==
  <<"I", "N", "C", ":", " ">>
    \o (IF frm = None THEN <<"N", "o", "n", "e">> ELSE Strip(frm[1]))
    \o <<" ", "|", "|", " ", "C", "O", "R", ":", " ">>
    \o (IF to = None THEN <<"N", "o", "n", "e">> ELSE Strip(to[1]))

\* micro_feedback_for of the error-tagger trainer
micro_feedback_for(error_type) ==
  IF error_type \in DOMAIN TRAIN_MICRO_FEEDBACK
    THEN TRAIN_MICRO_FEEDBACK[error_type]
    ELSE TRAIN_MICRO_FEEDBACK["other"]

_normalize_pair_for_clf(frm, to) ==
  <<"I", "N", "C", ":", " ">> \o Strip(OrEmpty(frm))
    \o <<" ", "|", "|", " ", "C", "O", "R", ":", " ">> \o Strip(OrEmpty(to))

\* the normalisation without lower()
NormalTextNoFold(x) == IF Truthy(x) THEN Strip(OrEmpty(x)) ELSE <<>>

\* (x or "").strip().lower() if x else ""
NormalText(x) == IF Truthy(x) THEN Lower(Strip(OrEmpty(x))) ELSE <<>>

\* the rules with the article check made on every kind of change
HeuristicRulesAnyArticle(type, frm, to) ==
  IF to \in ARTICLES
    THEN "articles/determiners"
  ELSE IF /\ type = "replaced" /\ frm # <<>> /\ to # <<>>
          /\ \/ frm \o <<"s">> = to
             \/ frm \o <<"e", "s">> = to
             \/ /\ EndsWith(frm, <<"y">>)
                /\ SubSeq(frm, 1, Len(frm) - 1) \o <<"i", "e", "s">> = to
    THEN "agreement/plural"
  ELSE IF type = "added" THEN "missing word"
  ELSE IF type = "deleted" THEN "unnecessary word"
  ELSE "other"

\* the rules with the kind-only rules tried first
HeuristicRulesReordered(type, frm, to) ==
  IF type = "added" THEN "missing word"
  ELSE IF type = "deleted" THEN "unnecessary word"
  ELSE IF type = "added" /\ to \in ARTICLES
    THEN "articles/determiners"
  ELSE IF /\ type = "replaced" /\ frm # <<>> /\ to # <<>>
          /\ \/ frm \o <<"s">> = to
             \/ frm \o <<"e", "s">> = to
             \/ /\ EndsWith(frm, <<"y">>)
                /\ SubSeq(frm, 1, Len(frm) - 1) \o <<"i", "e", "s">> = to
    THEN "agreement/plural"
  ELSE "other"

\* the rules of the heuristic on the normalised texts frm and to
HeuristicRules(type, frm, to) ==
  IF type = "added" /\ to \in ARTICLES
    THEN "articles/determiners"
  ELSE IF /\ type = "replaced" /\ frm # <<>> /\ to # <<>>
          /\ \/ frm \o <<"s">> = to
             \/ frm \o <<"e", "s">> = to
             \/ /\ EndsWith(frm, <<"y">>)
                /\ SubSeq(frm, 1, Len(frm) - 1) \o <<"i", "e", "s">> = to
    THEN "agreement/plural"
  ELSE IF type = "added" THEN "missing word"
  ELSE IF type = "deleted" THEN "unnecessary word"
  ELSE "other"

_predict_error_type_heuristic(change) ==
  HeuristicRules(change.type, NormalText(change.from), NormalText(change.to))

\* ------------------------------------------------------------------------
\* State
\* ------------------------------------------------------------------------

VARIABLES
  loaded,             \* ModelManager.loaded
  error_clf,          \* ModelManager.error_clf: "None" or a classifier of ClfIds
  error_clf_loaded,   \* ModelManager.error_clf_loaded
  pc,                 \* "boot" | "idle" | "returned" | "heuristic"
  op,                 \* the call that returned: "none" | "correct" | "identify_changes"
  original,           \* identify_changes: argument original
  corrected,          \* identify_changes: argument corrected
  o_tokens,           \* identify_changes: local o_tokens
  c_tokens,           \* identify_changes: local c_tokens
  opcodes,            \* identify_changes: sm.get_opcodes()
  result,             \* identify_changes: [called, raised, changes, consulted]
  response,           \* correct: the HTTP response
  h_change,           \* _predict_error_type_heuristic: argument
  h_label,            \* _predict_error_type_heuristic: returned label, "" before the call
  fb_label,           \* micro_feedback_for: argument error_type
  fb_tip,             \* micro_feedback_for: returned tip, "" before the call
  corpus,             \* build_error_type_examples: argument data
  examples,           \* build_error_type_examples: [raised, X, y]
  reload,             \* a running _load_error_classifier_from_hf: [pc, old, new]
  attr,               \* an attribution call: [pc, label, used]
  calls               \* running identify_changes calls: request -> its locals

vars ==
  << loaded, error_clf, error_clf_loaded, pc, op, original, corrected,
     o_tokens, c_tokens, opcodes, result, response, h_change, h_label,
     fb_label, fb_tip, corpus, examples, reload, attr, calls >>

\* the variables of the training script's side
offline == << fb_label, fb_tip, corpus, examples >>

NoExamples == [raised |-> FALSE, X |-> <<>>, y |-> <<>>]

OfflineInit ==
  /\ fb_label = ""
  /\ fb_tip = ""
  /\ corpus = <<>>
  /\ examples = NoExamples

\* the variables of calls that run at the same time
concurrent == << reload, attr, calls >>

\* no load is running
NoReload == [pc |-> "none", old |-> "None", new |-> "None"]

\* no attribution is running
NoAttr == [pc |-> "none", label |-> "", used |-> ""]

\* nothing runs at the same time as the call that is modelled
ConcurrentInit ==
  /\ reload = NoReload
  /\ attr = NoAttr
  /\ calls = <<>>

\* max(0, 10 - num_errors)
FullScore == 10

\* if len(changes) >= 50: break
MaxChanges == 50

\* ------------------------------------------------------------------------
\* Attribution with the classifier
\* ------------------------------------------------------------------------

\* a try block without the except clause: the exception leaves the function
TryPredictRaises(change, r) ==
  IF r.raised
    THEN [raised |-> TRUE, label |-> ""]
    ELSE [raised |-> FALSE, label |-> r.label]

\* an except clause that answers "other", as predict_error_type_for_change
\* of the training script does
TryPredictOther(change, r) ==
  IF r.raised
    THEN [raised |-> FALSE, label |-> "other"]
    ELSE [raised |-> FALSE, label |-> r.label]

\* The try block: the label of predict, and on any exception (except
\* Exception: pass) the heuristic after the if.
TryPredict(change, r) ==
  IF r.raised
    THEN [raised |-> FALSE, label |-> _predict_error_type_heuristic(change)]
    ELSE [raised |-> FALSE, label |-> r.label]

_predict_error_type(change) ==
  IF error_clf_loaded /\ error_clf # "None"
    THEN TryPredict(change,
                    Predict(error_clf, _normalize_pair_for_clf(change.from, change.to)))
    ELSE [raised |-> FALSE, label |-> _predict_error_type_heuristic(change)]

\* ------------------------------------------------------------------------
\* Edit extraction: identify_changes
\* ------------------------------------------------------------------------

\* the first token of the range in place of the joined range
SegmentFirstToken(tokens, lo, hi) == tokens[lo + 1]

\* the segment with the cleanup applied to commas only
SegmentCommaOnly(tokens, lo, hi) ==
  Replace(JoinSpace(Slice(tokens, lo, hi)), <<" ", ",">>, <<",">>)

\* " ".join(tokens[lo:hi]).replace(" ,", ",").replace(" .", ".")
Segment(tokens, lo, hi) ==
  Replace(Replace(JoinSpace(Slice(tokens, lo, hi)), <<" ", ",">>, <<",">>),
          <<" ", ".">>, <<".">>)

\* the change dict with the branches of "delete" and "insert" exchanged
MakeChangeSwapped(tag, original_segment, corrected_segment) ==
  IF tag = "replace"
    THEN [type |-> "replaced", from |-> Some(original_segment), to |-> Some(corrected_segment)]
  ELSE IF tag = "insert"
    THEN [type |-> "deleted", from |-> Some(corrected_segment), to |-> None]
  ELSE [type |-> "added", from |-> None, to |-> Some(original_segment)]

\* the change dict with a "replace" reported as a deletion
MakeChangeNoReplace(tag, original_segment, corrected_segment) ==
  IF tag = "replace" \/ tag = "delete"
    THEN [type |-> "deleted", from |-> Some(original_segment), to |-> None]
  ELSE [type |-> "added", from |-> None, to |-> Some(corrected_segment)]

\* the change dict built for a non-equal opcode
MakeChange(tag, original_segment, corrected_segment) ==
  IF tag = "replace"
    THEN [type |-> "replaced", from |-> Some(original_segment), to |-> Some(corrected_segment)]
  ELSE IF tag = "delete"
    THEN [type |-> "deleted", from |-> Some(original_segment), to |-> None]
  ELSE [type |-> "added", from |-> None, to |-> Some(corrected_segment)]

\* the loop without its break
AppendChangeNoCap(st, change, et) ==
  IF et.raised THEN [st EXCEPT !.raised = TRUE, !.consulted = @ + 1]
  ELSE [changes |-> Append(st.changes,
                           [type |-> change.type, from |-> change.from, to |-> change.to,
                            error_type |-> et.label,
                            micro_feedback |-> _micro_feedback_for(et.label)]),
        stopped |-> FALSE,
        raised  |-> FALSE,
        consulted |-> st.consulted + 1]

\* The change gets its error_type et and its tip and is appended; the loop
\* breaks at MaxChanges.  An exception out of _predict_error_type would
\* leave the loop.  st.consulted counts the calls of _predict_error_type.
AppendChange(st, change, et) ==
  IF et.raised THEN [st EXCEPT !.raised = TRUE, !.consulted = @ + 1]
  ELSE [changes |-> Append(st.changes,
                           [type |-> change.type, from |-> change.from, to |-> change.to,
                            error_type |-> et.label,
                            micro_feedback |-> _micro_feedback_for(et.label)]),
        stopped |-> Len(st.changes) + 1 >= MaxChanges,
        raised  |-> FALSE,
        consulted |-> st.consulted + 1]

\* an attribution that remembers a failure of predict: once predict has
\* raised on an edit of the list, the later edits get the heuristic's label
AttributeSticky(st, change) ==
  IF \E j \in DOMAIN st.changes :
       Predict(error_clf, _normalize_pair_for_clf(st.changes[j].from, st.changes[j].to)).raised
    THEN AppendChange(st, change,
                      [raised |-> FALSE, label |-> _predict_error_type_heuristic(change)])
    ELSE AppendChange(st, change, _predict_error_type(change))

Attribute(st, change) == AppendChange(st, change, _predict_error_type(change))

\* the loop body without the skip of "equal" opcodes
ChangeStepNoSkip(o_toks, c_toks, oc, st) ==
  IF st.stopped \/ st.raised THEN st
  ELSE Attribute(st, MakeChange(IF oc.tag = "equal" THEN "replace" ELSE oc.tag,
                                Segment(o_toks, oc.i1, oc.i2),
                                Segment(c_toks, oc.j1, oc.j2)))

\* the loop body with no branch for "insert" opcodes
ChangeStepNoInsert(o_toks, c_toks, oc, st) ==
  IF st.stopped \/ st.raised THEN st
  ELSE IF oc.tag \notin {"replace", "delete"} THEN st
  ELSE Attribute(st, MakeChange(oc.tag, Segment(o_toks, oc.i1, oc.i2),
                                Segment(c_toks, oc.j1, oc.j2)))

\* One turn of the loop over the opcodes.  st.stopped: the loop has hit its
\* break; st.raised: an exception has left the loop.
ChangeStep(o_toks, c_toks, oc, st) ==
  IF st.stopped \/ st.raised THEN st
  ELSE IF oc.tag = "equal" THEN st
  ELSE IF oc.tag \notin {"replace", "delete", "insert"} THEN st
  ELSE Attribute(st, MakeChange(oc.tag, Segment(o_toks, oc.i1, oc.i2),
                                Segment(c_toks, oc.j1, oc.j2)))

\* the locals of identify_changes when it returns (or raises)
Returned(o_toks, c_toks, ocs, fin) ==
  [o_tokens |-> o_toks, c_tokens |-> c_toks, opcodes |-> ocs,
   raised |-> fin.raised, changes |-> IF fin.raised THEN <<>> ELSE fin.changes,
   consulted |-> fin.consulted]

\* the loop run over the opcodes from the last one to the first
ChangesOfReversed(o_toks, c_toks, ocs) ==
  Returned(o_toks, c_toks, ocs,
           Iterate(LAMBDA n, st : ChangeStep(o_toks, c_toks, ocs[Len(ocs) + 1 - n], st),
                   1, Len(ocs),
                   [changes |-> <<>>, stopped |-> FALSE, raised |-> FALSE, consulted |-> 0]))

ChangesOf(o_toks, c_toks, ocs) ==
  Returned(o_toks, c_toks, ocs,
           Iterate(LAMBDA n, st : ChangeStep(o_toks, c_toks, ocs[n], st),
                   1, Len(ocs),
                   [changes |-> <<>>, stopped |-> FALSE, raised |-> FALSE, consulted |-> 0]))

Aligned(o_toks, c_toks) == ChangesOf(o_toks, c_toks, get_opcodes(o_toks, c_toks))

identify_changes(orig, corr) == Aligned(wp_tokenize(orig), wp_tokenize(corr))

\* ------------------------------------------------------------------------
\* Scoring and the /correct handler
\* ------------------------------------------------------------------------

NoLocals ==
  [o_tokens |-> <<>>, c_tokens |-> <<>>, opcodes |-> <<>>, raised |-> FALSE, changes |-> <<>>,
   consulted |-> 0]

NoResponse ==
  [status |-> 0, original |-> <<>>, corrected |-> <<>>, num_errors |-> 0,
   score |-> 0, changes |-> <<>>, has_errors |-> FALSE]

\* a score without the clamp at zero
ScoredUnclamped(student_input, corr, ic, num_errors) ==
  [raised |-> FALSE, called |-> TRUE, corrected |-> corr, locals |-> ic,
   body |-> [status |-> 200,
             original |-> student_input,
             corrected |-> corr,
             num_errors |-> num_errors,
             score |-> FullScore - num_errors,
             changes |-> ic.changes,
             has_errors |-> num_errors > 0]]

\* the dict correct_text returns after identify_changes has returned ic
Scored(student_input, corr, ic, num_errors) ==
  [raised |-> FALSE, called |-> TRUE, corrected |-> corr, locals |-> ic,
   body |-> [status |-> 200,
             original |-> student_input,
             corrected |-> corr,
             num_errors |-> num_errors,
             score |-> Max({0, FullScore - num_errors}),
             changes |-> ic.changes,
             has_errors |-> num_errors > 0]]

Detected(student_input, corr, ic) ==
  IF ic.raised
    THEN [raised |-> TRUE, called |-> TRUE, corrected |-> corr, locals |-> ic,
          body |-> NoResponse]
    ELSE Scored(student_input, corr, ic, Len(ic.changes))

Generated(student_input, corr) ==
  Detected(student_input, corr, identify_changes(student_input, corr))

\* correct_text from the decoded output of model.generate on: the returned
\* dict, or raised for an exception (RuntimeError when no model is loaded)
correct_text(student_input, generated) ==
  IF ~loaded
    THEN [raised |-> TRUE, called |-> FALSE, corrected |-> <<>>, locals |-> NoLocals,
          body |-> NoResponse]
    ELSE Generated(student_input, Strip(generated))

\* ------------------------------------------------------------------------
\* Inputs
\* ------------------------------------------------------------------------

\* most words of a generated sentence
MaxWords == 2

\* most repetitions of a unit in a long text
MaxReps == 52

\* tokens of the longest texts: SequenceMatcher treats a second sequence of
\* 200 elements or more with its autojunk rule
LongTokens == 200

A == <<"a">>
THE == <<"t", "h", "e">>
CAT == <<"c", "a", "t">>
CATS == <<"c", "a", "t", "s">>

Lexicon == {A, CAT, CATS}

\* the sentences of at most MaxWords words of the lexicon, single-spaced
Sentences ==
  UNION {{JoinSpace(ws) : ws \in [1 .. k -> Lexicon]} : k \in 0 .. MaxWords}

\* texts with punctuation, capitals, digits, an apostrophe, an underscore
\* and irregular whitespace
ExtraTexts ==
  { <<" ">>,
    <<" ">> \o CAT,
    CAT \o <<" ", " ">> \o A,
    A \o <<" ">> \o CAT \o <<"\n">>,
    THE \o <<" ">> \o CAT \o <<" ", ",", " ">> \o A \o <<" ">> \o CAT \o <<" ", ".">>,
    <<"T", "h", "e">> \o <<" ">> \o CATS \o <<",", " ">> \o A \o <<" ">> \o CAT \o <<".">>,
    CAT \o <<"'", "s">> \o <<" ">> \o CAT,
    CAT \o <<" ", "2", "2", " ">> \o CATS,
    A \o <<"_">> \o CAT }

ShortTexts == Sentences \cup ExtraTexts

\* n copies of unit, single-spaced
Rep(unit, n) ==
  Iterate(LAMBDA k, st : IF k = 1 THEN unit ELSE st \o <<" ">> \o unit, 1, n, <<>>)

LongReps == {1, FullScore - 1, FullScore, FullScore + 1, MaxChanges, MaxChanges + 1, MaxReps}

\* pairs with many differences: n separate substitutions, one substitution
\* of n tokens, n separate insertions
LongPairs ==
  UNION {{ <<Rep(THE \o <<" ">> \o CAT, n), Rep(THE \o <<" ">> \o CATS, n)>>,
           <<Rep(CAT, n), Rep(A, n)>>,
           <<Rep(THE, n), Rep(THE \o <<" ">> \o CAT, n)>> } : n \in LongReps}
    \cup { <<Rep(CAT, LongTokens), Rep(CAT, LongTokens)>>,
           <<Rep(THE \o <<" ">> \o CAT, LongTokens \div 2),
             Rep(THE \o <<" ">> \o CATS, LongTokens \div 2)>> }

\* (student_input, decoded output of the generation model)
CorrectPairs == (ShortTexts \X ShortTexts) \cup LongPairs

\* (original, corrected) of a direct call of identify_changes
DirectPairs == (({<<>>, CAT} \cup ExtraTexts) \X ({<<>>, CAT} \cup ExtraTexts)) \cup LongPairs

\* ------------------------------------------------------------------------
\* Operations
\* ------------------------------------------------------------------------

NoChange == [type |-> "", from |-> None, to |-> None]

Init ==
  /\ loaded = FALSE
  /\ error_clf = "None"
  /\ error_clf_loaded = FALSE
  /\ pc = "boot"
  /\ op = "none"
  /\ original = <<>>
  /\ corrected = <<>>
  /\ o_tokens = <<>>
  /\ c_tokens = <<>>
  /\ opcodes = <<>>
  /\ result = [called |-> FALSE, raised |-> FALSE, changes |-> <<>>, consulted |-> 0]
  /\ response = NoResponse
  /\ h_change = NoChange
  /\ h_label = ""
  /\ OfflineInit
  /\ ConcurrentInit

\* a loader that does not reset its fields first and fails after joblib.load
StartupNoReset ==
  /\ pc = "boot"
  /\ pc' = "idle"
  /\ \/ /\ loaded' = FALSE
        /\ error_clf' = "None"
        /\ error_clf_loaded' = FALSE
     \/ /\ loaded' = TRUE
        /\ error_clf' \in ClfIds
        /\ error_clf_loaded' = FALSE
     \/ /\ loaded' = TRUE
        /\ error_clf' \in ClfIds
        /\ error_clf_loaded' = TRUE
  /\ UNCHANGED << op, original, corrected, o_tokens, c_tokens, opcodes, result,
                  response, h_change, h_label, offline, concurrent >>

\* startup_event: load_model inside try/except.  _load_correction_model may
\* raise before anything is set; _load_error_classifier_from_hf is reached
\* only after it and either raises (download, missing file, joblib) leaving
\* the classifier reset, or installs the loaded classifier.
startup_event ==
  /\ pc = "boot"
  /\ pc' = "idle"
  /\ \/ /\ loaded' = FALSE
        /\ error_clf' = "None"
        /\ error_clf_loaded' = FALSE
     \/ /\ loaded' = TRUE
        /\ error_clf' = "None"
        /\ error_clf_loaded' = FALSE
     \/ /\ loaded' = TRUE
        /\ error_clf' \in ClfIds
        /\ error_clf_loaded' = TRUE
  /\ UNCHANGED << op, original, corrected, o_tokens, c_tokens, opcodes, result,
                  response, h_change, h_label, offline, concurrent >>

\* POST /correct with student_input, the generation model answering generated
correct ==
  /\ pc = "idle"
  /\ \E pair \in CorrectPairs :
     \E r \in {correct_text(pair[1], pair[2])} :
       LET student_input == pair[1]
       IN  /\ op' = "correct"
           /\ IF Strip(student_input) = <<>>
                THEN /\ response' = [NoResponse EXCEPT !.status = 400]
                     /\ original' = <<>>
                     /\ corrected' = <<>>
                     /\ o_tokens' = <<>>
                     /\ c_tokens' = <<>>
                     /\ opcodes' = <<>>
                     /\ result' = [called |-> FALSE, raised |-> FALSE, changes |-> <<>>,
                                   consulted |-> 0]
                ELSE /\ response' = IF r.raised THEN [NoResponse EXCEPT !.status = 500]
                                    ELSE r.body
                     /\ original' = IF r.called THEN student_input ELSE <<>>
                     /\ corrected' = r.corrected
                     /\ o_tokens' = r.locals.o_tokens
                     /\ c_tokens' = r.locals.c_tokens
                     /\ opcodes' = r.locals.opcodes
                     /\ result' = [called |-> r.called, raised |-> r.locals.raised,
                                   changes |-> r.locals.changes,
                                   consulted |-> r.locals.consulted]
  /\ pc' = "returned"
  /\ UNCHANGED << loaded, error_clf, error_clf_loaded, h_change, h_label, offline, concurrent >>

\* a direct call identify_changes(original, corrected)
call_identify_changes ==
  /\ pc = "idle"
  /\ \E pair \in DirectPairs :
     \E ic \in {identify_changes(pair[1], pair[2])} :
           /\ original' = pair[1]
           /\ corrected' = pair[2]
           /\ o_tokens' = ic.o_tokens
           /\ c_tokens' = ic.c_tokens
           /\ opcodes' = ic.opcodes
           /\ result' = [called |-> TRUE, raised |-> ic.raised, changes |-> ic.changes,
                         consulted |-> ic.consulted]
  /\ op' = "identify_changes"
  /\ pc' = "returned"
  /\ UNCHANGED << loaded, error_clf, error_clf_loaded, response, h_change, h_label, offline, concurrent >>

\* the caller takes the result; the call's locals are gone
Return ==
  /\ pc = "returned"
  /\ pc' = "idle"
  /\ op' = "none"
  /\ original' = <<>>
  /\ corrected' = <<>>
  /\ o_tokens' = <<>>
  /\ c_tokens' = <<>>
  /\ opcodes' = <<>>
  /\ result' = [called |-> FALSE, raised |-> FALSE, changes |-> <<>>, consulted |-> 0]
  /\ response' = NoResponse
  /\ UNCHANGED << loaded, error_clf, error_clf_loaded, h_change, h_label, offline, concurrent >>

Next == startup_event \/ correct \/ call_identify_changes \/ Return

Spec == Init /\ [][Next]_vars

\* ------------------------------------------------------------------------
\* The heuristic as a function of one change
\* ------------------------------------------------------------------------

\* most blanks around the text of a change
MaxPad == 1

HeurWords ==
  { <<>>, A, <<"A">>, <<"a", "n">>, <<"A", "n">>, THE, <<"T", "h", "e">>,
    CAT, <<"C", "a", "t">>, CATS, <<"C", "A", "T", "S">>,
    <<"b", "o", "x">>, <<"b", "o", "x", "e", "s">>,
    <<"c", "i", "t", "y">>, <<"c", "i", "t", "i", "e", "s">>,
    <<"C", "i", "t", "i", "e", "s">>, CAT \o <<"i", "e", "s">> }

Blanks(n) == [k \in 1 .. n |-> " "]

\* the values change.get("from") and change.get("to") may have
HeurSides ==
  {None} \cup {Some(Blanks(n) \o w \o Blanks(n)) : w \in HeurWords, n \in 0 .. MaxPad}

HeurChanges ==
  [type : {"added", "deleted", "replaced"}, from : HeurSides, to : HeurSides]

HeurInit ==
  /\ loaded = FALSE
  /\ error_clf = "None"
  /\ error_clf_loaded = FALSE
  /\ pc = "heuristic"
  /\ op = "none"
  /\ original = <<>>
  /\ corrected = <<>>
  /\ o_tokens = <<>>
  /\ c_tokens = <<>>
  /\ opcodes = <<>>
  /\ result = [called |-> FALSE, raised |-> FALSE, changes |-> <<>>, consulted |-> 0]
  /\ response = NoResponse
  /\ h_change \in HeurChanges
  /\ h_label = ""
  /\ OfflineInit
  /\ ConcurrentInit

\* a call _predict_error_type_heuristic(h_change)
call_heuristic ==
  /\ pc = "heuristic"
  /\ h_label' = _predict_error_type_heuristic(h_change)
  /\ pc' = "labelled"
  /\ UNCHANGED << loaded, error_clf, error_clf_loaded, op, original, corrected,
                  o_tokens, c_tokens, opcodes, result, response, h_change, offline, concurrent >>

HeurNext == call_heuristic

SpecHeur == HeurInit /\ [][HeurNext]_vars

\* ------------------------------------------------------------------------
\* identify_changes without a classifier, on pairs one edit apart
\* ------------------------------------------------------------------------

\* most tokens of a text before a token is inserted into it
MaxEditWords == 3

AN == <<"a", "n">>
COMMA == <<",">>
PERIOD == <<".">>
ONE == <<"o", "n", "e">>
TWO == <<"t", "w", "o">>
SAW == <<"s", "a", "w">>
DOG == <<"d", "o", "g">>
VERY == <<"v", "e", "r", "y">>
HAPPY == <<"h", "a", "p", "p", "y">>
LETTER == <<"l", "e", "t", "t", "e", "r">>

\* token sequences of at most MaxEditWords tokens
EditBases == UNION {[1 .. k -> {A, CAT, CATS}] : k \in 0 .. MaxEditWords}

\* the tokens inserted or removed: articles in both cases, a noun, a comma
EditTokens == {A, AN, THE, <<"T", "h", "e">>, CAT, COMMA}

\* seq with the token t put after its first k tokens
InsertAt(seq, k, t) == SubSeq(seq, 1, k) \o <<t>> \o SubSeq(seq, k + 1, Len(seq))

\* (shorter, longer) token sequences one token apart
OneTokenApart ==
  UNION {{ <<base, InsertAt(base, k, t)>> : k \in 0 .. Len(base), t \in EditTokens } :
         base \in EditBases}

\* (original, corrected) token sequences that differ in the token at one
\* position
OneTokenSwapped ==
  { p \in UNION {{ <<base, [base EXCEPT ![k] = t]>> : k \in DOMAIN base, t \in EditTokens } :
                  base \in EditBases \ {<<>>}} : p[1] # p[2] }

\* pairs of texts quoted as examples of one edit
ExamplePairs ==
  { <<JoinSpace(<<ONE, CAT>>), JoinSpace(<<TWO, CATS>>)>>,
    <<JoinSpace(<<THE, CAT>>), JoinSpace(<<THE, CATS>>)>>,
    <<JoinSpace(<< <<"I">>, SAW, DOG >>), JoinSpace(<< <<"I">>, SAW, A, DOG >>)>>,
    <<JoinSpace(<<VERY, VERY, HAPPY>>), JoinSpace(<<VERY, HAPPY>>)>>,
    <<JoinSpace(<<A, LETTER>>), JoinSpace(<<THE, LETTER>>)>>,
    <<JoinSpace(<<THE, LETTER>>), JoinSpace(<<A, LETTER>>)>>,
    <<JoinSpace(<<CAT, COMMA, A, DOG, PERIOD>>), JoinSpace(<<DOG, PERIOD, A, CAT, COMMA>>)>>,
    <<JoinSpace(<<CAT, COMMA, PERIOD>>), JoinSpace(<<DOG>>)>> }

\* (original, corrected) of a call without a classifier
EditPairs ==
  ExamplePairs
    \cup {<<JoinSpace(p[1]), JoinSpace(p[2])>> : p \in OneTokenApart}
    \cup {<<JoinSpace(p[2]), JoinSpace(p[1])>> : p \in OneTokenApart}
    \cup {<<JoinSpace(p[1]), JoinSpace(p[2])>> : p \in OneTokenSwapped}
    \cup {<<JoinSpace(p[2]), JoinSpace(p[1])>> : p \in OneTokenSwapped}

\* the server after a startup that loaded nothing
EditInit ==
  /\ loaded = FALSE
  /\ error_clf = "None"
  /\ error_clf_loaded = FALSE
  /\ pc = "idle"
  /\ op = "none"
  /\ original = <<>>
  /\ corrected = <<>>
  /\ o_tokens = <<>>
  /\ c_tokens = <<>>
  /\ opcodes = <<>>
  /\ result = [called |-> FALSE, raised |-> FALSE, changes |-> <<>>, consulted |-> 0]
  /\ response = NoResponse
  /\ h_change = NoChange
  /\ h_label = ""
  /\ OfflineInit
  /\ ConcurrentInit

\* a call identify_changes(original, corrected) on a pair of EditPairs
detect_changes ==
  /\ pc = "idle"
  /\ \E pair \in EditPairs :
     \E ic \in {identify_changes(pair[1], pair[2])} :
           /\ original' = pair[1]
           /\ corrected' = pair[2]
           /\ o_tokens' = ic.o_tokens
           /\ c_tokens' = ic.c_tokens
           /\ opcodes' = ic.opcodes
           /\ result' = [called |-> TRUE, raised |-> ic.raised, changes |-> ic.changes,
                         consulted |-> ic.consulted]
  /\ op' = "identify_changes"
  /\ pc' = "returned"
  /\ UNCHANGED << loaded, error_clf, error_clf_loaded, response, h_change, h_label, offline, concurrent >>

EditNext == detect_changes \/ Return

SpecEdit == EditInit /\ [][EditNext]_vars

\* ------------------------------------------------------------------------
\* The tokenizer alone: _wp_tokenize(original) on every short ASCII text
\* ------------------------------------------------------------------------

MaxTextLen == 4

\* a lower-case and an upper-case letter, a digit, the apostrophe, the
\* underscore, a space and a punctuation character
TokAlphabet == {"a", "B", "1", "'", "_", " ", ","}

TokTexts == UNION {[1 .. n -> TokAlphabet] : n \in 0 .. MaxTextLen}

TokInit ==
  /\ loaded = FALSE
  /\ error_clf = "None"
  /\ error_clf_loaded = FALSE
  /\ pc = "text"
  /\ op = "none"
  /\ original \in TokTexts
  /\ corrected = <<>>
  /\ o_tokens = <<>>
  /\ c_tokens = <<>>
  /\ opcodes = <<>>
  /\ result = [called |-> FALSE, raised |-> FALSE, changes |-> <<>>, consulted |-> 0]
  /\ response = NoResponse
  /\ h_change = NoChange
  /\ h_label = ""
  /\ OfflineInit
  /\ ConcurrentInit

\* a call _wp_tokenize(original)
tokenize ==
  /\ pc = "text"
  /\ o_tokens' = wp_tokenize(original)
  /\ pc' = "tokenized"
  /\ UNCHANGED << loaded, error_clf, error_clf_loaded, op, original, corrected,
                  c_tokens, opcodes, result, response, h_change, h_label, offline, concurrent >>

TokNext == tokenize

SpecTok == TokInit /\ [][TokNext]_vars

\* ------------------------------------------------------------------------
\* The feedback mapper: the two lookups called on their own, and the edits
\* of identify_changes
\* ------------------------------------------------------------------------

\* the labels of the table, the fine-grained codes of the corpus and strings
\* that are neither
TipLabels ==
  DOMAIN MICRO_FEEDBACK \cup DOMAIN FCE_TO_FRIENDLY
    \cup {"", "UNKNOWN", "Other", "spelling ", "wordorder"}

\* a call _micro_feedback_for(fb_label) of the server
call_micro_feedback_for ==
  /\ pc = "idle"
  /\ \E label \in TipLabels :
       /\ fb_label' = label
       /\ fb_tip' = _micro_feedback_for(label)
  /\ op' = "_micro_feedback_for"
  /\ pc' = "tip"
  /\ UNCHANGED << loaded, error_clf, error_clf_loaded, original, corrected, o_tokens,
                  c_tokens, opcodes, result, response, h_change, h_label, corpus,
                  examples, concurrent >>

\* a call micro_feedback_for(fb_label) of the trainer
call_train_micro_feedback_for ==
  /\ pc = "idle"
  /\ \E label \in TipLabels :
       /\ fb_label' = label
       /\ fb_tip' = micro_feedback_for(label)
  /\ op' = "micro_feedback_for"
  /\ pc' = "tip"
  /\ UNCHANGED << loaded, error_clf, error_clf_loaded, original, corrected, o_tokens,
                  c_tokens, opcodes, result, response, h_change, h_label, corpus,
                  examples, concurrent >>

TipNext ==
  \/ startup_event
  \/ call_identify_changes
  \/ call_micro_feedback_for
  \/ call_train_micro_feedback_for

SpecTip == Init /\ [][TipNext]_vars

\* ------------------------------------------------------------------------
\* The training-example builder: build_error_type_examples(corpus)
\* ------------------------------------------------------------------------

\* length of the maximal run of \w characters starting at position p
WordRun(s, p) ==
  Min({q \in p .. Len(s) + 1 : q = Len(s) + 1 \/ ~IsWordChar(s[q])}) - p

\* \w+|[^\w\s] at position p: the length of the match, 0 for none
TrainMatchLen(s, p) ==
  IF IsWordChar(s[p]) THEN WordRun(s, p)
  ELSE IF ~IsSpace(s[p]) THEN 1
  ELSE 0

\* the trainer's tokenizer replaced by the server's
TrainTokenizeAsServer(s) == wp_tokenize(s)

\* _wp_tokenize of the trainer: re.findall(r"\w+|[^\w\s]", s, re.UNICODE)
train_wp_tokenize(s) ==
  Iterate(LAMBDA k, st :
            IF k # st.p THEN st
            ELSE LET n == TrainMatchLen(s, k)
                 IN  IF n = 0 THEN [p |-> k + 1, out |-> st.out]
                     ELSE [p |-> k + n, out |-> Append(st.out, SubSeq(s, k, k + n - 1))],
          1, Len(s), [p |-> 1, out |-> <<>>]).out

\* def build_error_type_examples(data, min_len=1, max_len=40)
min_len == 1

max_len == 40

\* the keys of FCE_TO_FRIENDLY as texts
FceCodeChars ==
  ( "AGN" :> <<"A", "G", "N">> ) @@ ( "AGV" :> <<"A", "G", "V">> ) @@ ( "AGA" :> <<"A", "G", "A">> ) @@
  ( "MD" :> <<"M", "D">> ) @@ ( "MA" :> <<"M", "A">> ) @@ ( "DD" :> <<"D", "D">> ) @@
  ( "UA" :> <<"U", "A">> ) @@ ( "TV" :> <<"T", "V">> ) @@ ( "FV" :> <<"F", "V">> ) @@
  ( "RV" :> <<"R", "V">> ) @@ ( "UV" :> <<"U", "V">> ) @@ ( "RT" :> <<"R", "T">> ) @@
  ( "S" :> <<"S">> ) @@ ( "RJ" :> <<"R", "J">> ) @@ ( "RN" :> <<"R", "N">> ) @@
  ( "FN" :> <<"F", "N">> ) @@ ( "R" :> <<"R">> ) @@ ( "ID" :> <<"I", "D">> ) @@
  ( "MT" :> <<"M", "T">> ) @@ ( "UT" :> <<"U", "T">> ) @@ ( "RP" :> <<"R", "P">> ) @@
  ( "MP" :> <<"M", "P">> ) @@ ( "UP" :> <<"U", "P">> ) @@ ( "W" :> <<"W">> )

\* the text of a code as a key of FCE_TO_FRIENDLY; a text that spells no key
\* is a string outside the table
CodeString(code) ==
  IF \E c \in DOMAIN FceCodeChars : FceCodeChars[c] = code
    THEN CHOOSE c \in DOMAIN FceCodeChars : FceCodeChars[c] = code
    ELSE "UNKNOWN"

\* (corr.get(key) or default): a missing key, None and "" give the default
GetOr(x, default) == IF Truthy(x) THEN x[1] ELSE default

\* f"INC: {inc} || COR: {cor}"
ExampleText(inc, cor) ==
  <<"I", "N", "C", ":", " ">> \o inc
    \o <<" ", "|", "|", " ", "C", "O", "R", ":", " ">> \o cor

\* the three "continue" tests and the two appends
BuildKeep(st, fce_code, inc, cor, n_inc, n_cor) ==
  IF inc = <<>> /\ cor = <<>> THEN st
  ELSE IF n_inc < min_len /\ n_cor < min_len THEN st
  ELSE IF n_inc > max_len \/ n_cor > max_len THEN st
  ELSE [st EXCEPT !.X = Append(@, ExampleText(inc, cor)),
                  !.y = Append(@, Friendly(CodeString(fce_code)))]

BuildTokens(st, fce_code, inc, cor) ==
  BuildKeep(st, fce_code, inc, cor,
            Len(train_wp_tokenize(inc)), Len(train_wp_tokenize(cor)))

\* a body that passes over a correction with a missing field
BuildCorrSkipMissing(st, corr) ==
  IF corr.error_type = None \/ corr.incorrect = None \/ corr.correct = None
    THEN st
    ELSE BuildTokens(st, Strip(corr.error_type[1]), Strip(corr.incorrect[1]),
                     Strip(corr.correct[1]))

\* the body of the inner loop for one correction
BuildCorr(st, corr) ==
  BuildTokens(st,
              Strip(GetOr(corr.error_type, <<"U", "N", "K", "N", "O", "W", "N">>)),
              Strip(GetOr(corr.incorrect, <<>>)),
              Strip(GetOr(corr.correct, <<>>)))

\* item.get("corrections", [])
CorrectionsOf(item) == IF item.corrections = None THEN <<>> ELSE item.corrections[1]

\* for corr in item.get("corrections", [])
BuildItem(st, corrs) ==
  Iterate(LAMBDA k, acc : BuildCorr(acc, corrs[k]), 1, Len(corrs), st)

build_error_type_examples(data) ==
  Iterate(LAMBDA i, st : BuildItem(st, CorrectionsOf(data[i])), 1, Len(data), NoExamples)

\* A correction of the corpus: each field is a text, or None when the key is
\* missing
Corr(code, inc, cor) == [error_type |-> code, incorrect |-> inc, correct |-> cor]

MaxItems == 2

TEH == <<"t", "e", "h">>

\* corrections with all their fields, with padded fields, with an unmapped or
\* empty code, with a text of one underscore, with texts of max_len and of
\* max_len + 1 tokens, with two empty texts
FullCorrs ==
  { Corr(Some(<<"S">>), Some(TEH), Some(THE)),
    Corr(Some(<<" ", "R", "P", " ">>), Some(<<" ">> \o CAT \o <<" ", ",">>), Some(CAT \o <<".", " ">>)),
    Corr(Some(<<"X", "X">>), Some(CAT), Some(CATS)),
    Corr(Some(<<>>), Some(A), Some(THE)),
    Corr(Some(<<"M", "D">>), Some(<<>>), Some(THE)),
    Corr(Some(<<"U", "T">>), Some(<<"_">>), Some(<<>>)),
    Corr(Some(<<"W">>), Some(Rep(A, max_len)), Some(Rep(THE, max_len))),
    Corr(Some(<<"S">>), Some(Rep(A, max_len + 1)), Some(A)),
    Corr(Some(<<"S">>), Some(A), Some(Rep(CAT \o <<",">>, max_len))),
    Corr(Some(<<"S">>), Some(<<>>), Some(<<" ", " ">>)) }

\* corrections with a missing field
PartialCorrs ==
  { Corr(None, Some(CAT), Some(CATS)),
    Corr(Some(<<"M", "D">>), None, Some(THE)),
    Corr(Some(<<"U", "T">>), Some(THE), None),
    Corr(None, None, Some(A)),
    Corr(Some(<<"S">>), None, None),
    Corr(Some(<<"S">>), None, Some(<<" ">>)),
    Corr(None, None, None) }

\* items: no "corrections" key, an empty list, one correction, two
\* corrections of which the first is skipped or has a missing field
CorpusItems ==
  { [corrections |-> None], [corrections |-> Some(<<>>)] }
    \cup { [corrections |-> Some(<<c>>)] : c \in FullCorrs \cup PartialCorrs }
    \cup { [corrections |-> Some(<<c, Corr(Some(<<"S">>), Some(TEH), Some(THE))>>)] :
             c \in { Corr(Some(<<"S">>), Some(<<>>), Some(<<" ", " ">>)),
                     Corr(None, Some(CAT), Some(CATS)),
                     Corr(None, None, None) } }

Corpora == UNION {[1 .. n -> CorpusItems] : n \in 0 .. MaxItems}

BuildInit ==
  /\ loaded = FALSE
  /\ error_clf = "None"
  /\ error_clf_loaded = FALSE
  /\ pc = "corpus"
  /\ op = "none"
  /\ original = <<>>
  /\ corrected = <<>>
  /\ o_tokens = <<>>
  /\ c_tokens = <<>>
  /\ opcodes = <<>>
  /\ result = [called |-> FALSE, raised |-> FALSE, changes |-> <<>>, consulted |-> 0]
  /\ response = NoResponse
  /\ h_change = NoChange
  /\ h_label = ""
  /\ fb_label = ""
  /\ fb_tip = ""
  /\ corpus \in Corpora
  /\ examples = NoExamples
  /\ ConcurrentInit

\* X, y = build_error_type_examples(corpus)
call_build_error_type_examples ==
  /\ pc = "corpus"
  /\ examples' = build_error_type_examples(corpus)
  /\ pc' = "built"
  /\ UNCHANGED << loaded, error_clf, error_clf_loaded, op, original, corrected,
                  o_tokens, c_tokens, opcodes, result, response, h_change, h_label,
                  fb_label, fb_tip, corpus,
                  concurrent >>

BuildNext == call_build_error_type_examples

SpecBuild == BuildInit /\ [][BuildNext]_vars

\* ------------------------------------------------------------------------
\* _load_error_classifier_from_hf run again on a serving process, one
\* statement at a time, while one _predict_error_type(h_change) runs, one
\* read of model_manager at a time
\* ------------------------------------------------------------------------

ReloadChanges ==
  { [type |-> "added", from |-> None, to |-> Some(THE)],
    [type |-> "replaced", from |-> Some(CAT), to |-> Some(CATS)] }

\* a process that has started with a classifier; reload.old keeps the
\* instance it started with
ReloadInit ==
  /\ loaded = TRUE
  /\ error_clf \in ClfIds
  /\ error_clf_loaded = TRUE
  /\ pc = "idle"
  /\ op = "none"
  /\ original = <<>>
  /\ corrected = <<>>
  /\ o_tokens = <<>>
  /\ c_tokens = <<>>
  /\ opcodes = <<>>
  /\ result = [called |-> FALSE, raised |-> FALSE, changes |-> <<>>, consulted |-> 0]
  /\ response = NoResponse
  /\ h_change \in ReloadChanges
  /\ h_label = ""
  /\ OfflineInit
  /\ reload = [pc |-> "none", old |-> error_clf, new |-> "None"]
  /\ attr = NoAttr
  /\ calls = <<>>

\* what a step of the load leaves alone, the two fields apart
ReloadFrame ==
  UNCHANGED << loaded, pc, op, original, corrected, o_tokens, c_tokens, opcodes,
               result, response, h_change, h_label, offline, attr, calls >>

\* self.error_clf = None
reload_reset_clf ==
  /\ reload.pc = "none"
  /\ error_clf' = "None"
  /\ reload' = [reload EXCEPT !.pc = "reset_flag"]
  /\ UNCHANGED error_clf_loaded
  /\ ReloadFrame

\* self.error_clf_loaded = False
reload_reset_flag ==
  /\ reload.pc = "reset_flag"
  /\ error_clf_loaded' = FALSE
  /\ reload' = [reload EXCEPT !.pc = "download"]
  /\ UNCHANGED error_clf
  /\ ReloadFrame

\* repo_dir = snapshot_download(...): returns or raises
reload_download ==
  /\ reload.pc = "download"
  /\ \E next \in {"exists", "failed"} : reload' = [reload EXCEPT !.pc = next]
  /\ UNCHANGED << error_clf, error_clf_loaded >>
  /\ ReloadFrame

\* if not os.path.exists(clf_path): raise FileNotFoundError
reload_exists ==
  /\ reload.pc = "exists"
  /\ \E next \in {"load", "failed"} : reload' = [reload EXCEPT !.pc = next]
  /\ UNCHANGED << error_clf, error_clf_loaded >>
  /\ ReloadFrame

\* self.error_clf = joblib.load(clf_path): the new instance, or raises
reload_load ==
  /\ reload.pc = "load"
  /\ \/ /\ \E new \in ClfIds :
             /\ error_clf' = new
             /\ reload' = [reload EXCEPT !.pc = "set_flag", !.new = new]
     \/ /\ reload' = [reload EXCEPT !.pc = "failed"]
        /\ UNCHANGED error_clf
  /\ UNCHANGED error_clf_loaded
  /\ ReloadFrame

\* self.error_clf_loaded = True
reload_set_flag ==
  /\ reload.pc = "set_flag"
  /\ error_clf_loaded' = TRUE
  /\ reload' = [reload EXCEPT !.pc = "done"]
  /\ UNCHANGED error_clf
  /\ ReloadFrame

\* what a step of the attribution leaves alone
AttrFrame ==
  UNCHANGED << loaded, error_clf, error_clf_loaded, pc, op, original, corrected,
               o_tokens, c_tokens, opcodes, result, response, h_change, h_label,
               offline, reload, calls >>

\* the attribution ends on the heuristic
AttrHeuristic ==
  [pc |-> "done", label |-> _predict_error_type_heuristic(h_change), used |-> "heuristic"]

\* if model_manager.error_clf_loaded
attr_read_flag ==
  /\ attr.pc = "none"
  /\ attr' = IF error_clf_loaded THEN [attr EXCEPT !.pc = "clf"] ELSE AttrHeuristic
  /\ AttrFrame

\* and model_manager.error_clf is not None
attr_read_clf ==
  /\ attr.pc = "clf"
  /\ attr' = IF error_clf # "None" THEN [attr EXCEPT !.pc = "predict"] ELSE AttrHeuristic
  /\ AttrFrame

\* model_manager.error_clf.predict([x])[0] inside the try block: the field is
\* read again; None has no predict, and the AttributeError is caught like
\* an exception of predict
attr_predict ==
  /\ attr.pc = "predict"
  /\ attr' = IF error_clf = "None"
               THEN AttrHeuristic
               ELSE [pc |-> "done",
                     label |-> TryPredict(h_change,
                                          Predict(error_clf,
                                                  _normalize_pair_for_clf(h_change.from,
                                                                          h_change.to))).label,
                     used |-> error_clf]
  /\ AttrFrame

ReloadNext ==
  \/ reload_reset_clf
  \/ reload_reset_flag
  \/ reload_download
  \/ reload_exists
  \/ reload_load
  \/ reload_set_flag
  \/ attr_read_flag
  \/ attr_read_clf
  \/ attr_predict

SpecReload == ReloadInit /\ [][ReloadNext]_vars

\* ------------------------------------------------------------------------
\* The attribution of one change by the server and by the error-tagger
\* trainer, with the same classifier
\* ------------------------------------------------------------------------

\* the text x the trainer's attribution gives to predict
OfflineText(change) ==
  IF change.type = "added" THEN _normalize_pair_for_clf(Some(<<>>), change.to)
  ELSE IF change.type = "deleted" THEN _normalize_pair_for_clf(change.from, Some(<<>>))
  ELSE _normalize_pair_for_clf(change.from, change.to)

\* try: return clf.predict([x])[0] / except Exception: return "other"
OfflineTry(r) == IF r.raised THEN "other" ELSE r.label

\* predict_error_type_for_change of the error-tagger trainer
predict_error_type_for_change(clf, change) ==
  IF clf = "None"
    THEN IF change.type = "added" THEN "missing word"
         ELSE IF change.type = "deleted" THEN "unnecessary word"
         ELSE "other"
    ELSE OfflineTry(Predict(clf, OfflineText(change)))

OfflineChanges ==
  { [type |-> "added", from |-> None, to |-> Some(t)] : t \in {A, AN, THE, CAT} }
    \cup { [type |-> "deleted", from |-> Some(t), to |-> None] : t \in {A, CAT} }
    \cup { [type |-> "replaced", from |-> Some(p[1]), to |-> Some(p[2])] :
             p \in { <<CAT, CATS>>, <<CATS, CAT>>, <<A, THE>>, <<CAT, DOG>>,
                     <<HAPPY, <<"h", "a", "p", "p", "i", "e", "s">> >> } }

\* a process that has started, with a classifier or without one
OfflineAttrInit ==
  /\ loaded = TRUE
  /\ error_clf \in {"None"} \cup ClfIds
  /\ error_clf_loaded = (error_clf # "None")
  /\ pc = "idle"
  /\ op = "none"
  /\ original = <<>>
  /\ corrected = <<>>
  /\ o_tokens = <<>>
  /\ c_tokens = <<>>
  /\ opcodes = <<>>
  /\ result = [called |-> FALSE, raised |-> FALSE, changes |-> <<>>, consulted |-> 0]
  /\ response = NoResponse
  /\ h_change \in OfflineChanges
  /\ h_label = ""
  /\ OfflineInit
  /\ ConcurrentInit

\* a call _predict_error_type(h_change) of the server
call_predict_error_type ==
  /\ h_label = ""
  /\ h_label' = _predict_error_type(h_change).label
  /\ UNCHANGED << loaded, error_clf, error_clf_loaded, pc, op, original, corrected,
                  o_tokens, c_tokens, opcodes, result, response, h_change, offline,
                  concurrent >>

\* a call predict_error_type_for_change(error_clf, h_change) of the trainer
call_predict_error_type_for_change ==
  /\ attr.pc = "none"
  /\ attr' = [pc |-> "done", label |-> predict_error_type_for_change(error_clf, h_change),
              used |-> "offline"]
  /\ UNCHANGED << loaded, error_clf, error_clf_loaded, pc, op, original, corrected,
                  o_tokens, c_tokens, opcodes, result, response, h_change, h_label,
                  offline, reload, calls >>

OfflineNext == call_predict_error_type \/ call_predict_error_type_for_change

SpecOffline == OfflineAttrInit /\ [][OfflineNext]_vars

\* ------------------------------------------------------------------------
\* Several identify_changes calls in progress at once, each advancing one
\* turn of its loop at a time
\* ------------------------------------------------------------------------

NumCalls == 2

Requests == 1 .. NumCalls

ConcPairs ==
  { <<JoinSpace(<<A, CAT>>), JoinSpace(<<THE, CATS>>)>>,
    <<JoinSpace(<<A, CAT>>), JoinSpace(<<A, CAT>>)>>,
    <<JoinSpace(<<CAT, DOG>>), JoinSpace(<<THE, CAT, A, DOG>>)>>,
    <<JoinSpace(<<THE, CAT, COMMA, A, DOG>>), JoinSpace(<<THE, CATS, A, DOG, PERIOD>>)>> }

\* the locals of a call that has not started
IdleCall ==
  [pc |-> "idle", original |-> <<>>, corrected |-> <<>>, o_tokens |-> <<>>,
   c_tokens |-> <<>>, opcodes |-> <<>>, n |-> 0,
   st |-> [changes |-> <<>>, stopped |-> FALSE, raised |-> FALSE, consulted |-> 0]]

\* a process that has started, with a classifier or without one, and no call
\* in progress
ConcInit ==
  /\ loaded = TRUE
  /\ error_clf \in {"None"} \cup ClfIds
  /\ error_clf_loaded = (error_clf # "None")
  /\ pc = "idle"
  /\ op = "none"
  /\ original = <<>>
  /\ corrected = <<>>
  /\ o_tokens = <<>>
  /\ c_tokens = <<>>
  /\ opcodes = <<>>
  /\ result = [called |-> FALSE, raised |-> FALSE, changes |-> <<>>, consulted |-> 0]
  /\ response = NoResponse
  /\ h_change = NoChange
  /\ h_label = ""
  /\ OfflineInit
  /\ reload = NoReload
  /\ attr = NoAttr
  /\ calls = [i \in Requests |-> IdleCall]

\* what a step of a call leaves alone: everything but its own locals
CallFrame ==
  UNCHANGED << loaded, error_clf, error_clf_loaded, pc, op, original, corrected,
               o_tokens, c_tokens, opcodes, result, response, h_change, h_label,
               offline, reload, attr >>

\* the locals of a call after the tokenizer and the aligner
StartedCall(pair, o_toks, c_toks) ==
  [pc |-> "loop", original |-> pair[1], corrected |-> pair[2], o_tokens |-> o_toks,
   c_tokens |-> c_toks, opcodes |-> get_opcodes(o_toks, c_toks), n |-> 1,
   st |-> [changes |-> <<>>, stopped |-> FALSE, raised |-> FALSE, consulted |-> 0]]

\* request i enters identify_changes: tokens, opcodes, changes = []
call_begin(i) ==
  /\ calls[i].pc = "idle"
  /\ \E pair \in ConcPairs :
       calls' = [calls EXCEPT ![i] = StartedCall(pair, wp_tokenize(pair[1]),
                                                 wp_tokenize(pair[2]))]
  /\ CallFrame

\* a loop whose changes list is one list shared by all the calls
CallStepShared(i) ==
  /\ calls[i].pc = "loop"
  /\ calls[i].n <= Len(calls[i].opcodes)
  /\ ~calls[i].st.stopped
  /\ \E next \in {ChangeStep(calls[i].o_tokens, calls[i].c_tokens,
                             calls[i].opcodes[calls[i].n], calls[i].st)} :
       calls' = [j \in Requests |->
                   IF j = i THEN [calls[j] EXCEPT !.n = @ + 1, !.st = next]
                   ELSE [calls[j] EXCEPT !.st = next]]
  /\ CallFrame

\* request i runs one turn of its loop
call_step(i) ==
  /\ calls[i].pc = "loop"
  /\ calls[i].n <= Len(calls[i].opcodes)
  /\ ~calls[i].st.stopped
  /\ calls' = [calls EXCEPT
                 ![i].n = @ + 1,
                 ![i].st = ChangeStep(calls[i].o_tokens, calls[i].c_tokens,
                                      calls[i].opcodes[calls[i].n], calls[i].st)]
  /\ CallFrame

\* request i leaves the loop and returns its changes
call_return(i) ==
  /\ calls[i].pc = "loop"
  /\ calls[i].n > Len(calls[i].opcodes) \/ calls[i].st.stopped
  /\ calls' = [calls EXCEPT ![i].pc = "done"]
  /\ CallFrame

ConcNext == \E i \in Requests : call_begin(i) \/ call_step(i) \/ call_return(i)

SpecConc == ConcInit /\ [][ConcNext]_vars

\* ------------------------------------------------------------------------
\* Properties
\* ------------------------------------------------------------------------

\* the opcodes that become edits
NonEqual == {k \in DOMAIN opcodes : opcodes[k].tag # "equal"}

\* the edit k of the returned list, as the change dict the attribution saw
ChangeOf(k) ==
  [type |-> result.changes[k].type, from |-> result.changes[k].from,
   to |-> result.changes[k].to]

\* C1: after identify_changes has run on (original, corrected), the opcodes
\* are ordered and partition both token sequences exactly: the ranges
\* [i1, i2) start at 0, each starts where the one before it ends, the last
\* ends at len(o_tokens), and the same for [j1, j2) and len(c_tokens); no
\* opcode is empty on both sides.
C1_OpcodesPartition ==
  result.called =>
    IF opcodes = <<>>
      THEN o_tokens = <<>> /\ c_tokens = <<>>
      ELSE /\ opcodes[1].i1 = 0
           /\ opcodes[1].j1 = 0
           /\ opcodes[Len(opcodes)].i2 = Len(o_tokens)
           /\ opcodes[Len(opcodes)].j2 = Len(c_tokens)
           /\ \A k \in 1 .. Len(opcodes) - 1 :
                /\ opcodes[k].i2 = opcodes[k + 1].i1
                /\ opcodes[k].j2 = opcodes[k + 1].j1
           /\ \A k \in DOMAIN opcodes :
                /\ opcodes[k].i1 <= opcodes[k].i2
                /\ opcodes[k].j1 <= opcodes[k].j2
                /\ opcodes[k].i1 < opcodes[k].i2 \/ opcodes[k].j1 < opcodes[k].j2

\* an alignment of sequences of different lengths with a replace among
\* three opcodes or more
C1_Witness ==
  /\ result.called
  /\ Len(opcodes) >= 3
  /\ Len(o_tokens) # Len(c_tokens)
  /\ \E k \in DOMAIN opcodes : opcodes[k].tag = "replace"

\* C2: when the corrected text equals the original text, identify_changes
\* returns no edit, and the result of correct_text has num_errors 0, score
\* 10 and has_errors false, whatever the classifier is.
C2_NoOp ==
  (result.called /\ original = corrected) =>
    /\ ~result.raised
    /\ result.changes = <<>>
    /\ op = "correct" =>
         /\ response.status = 200
         /\ response.changes = <<>>
         /\ response.num_errors = 0
         /\ response.score = 10
         /\ response.has_errors = FALSE

\* a text of 200 tokens corrected to itself with a classifier loaded
C2_Witness ==
  /\ op = "correct"
  /\ result.called
  /\ original = corrected
  /\ Len(o_tokens) >= 200
  /\ error_clf_loaded

\* C3: in every result of correct_text, num_errors is the length of the edit
\* list, score = max(0, 10 - num_errors), so 0 <= score <= 10 and
\* score = 10 - min(num_errors, 10); no smaller edit count gives a smaller
\* score; has_errors holds exactly when num_errors > 0.
C3_Score ==
  response.status = 200 =>
    /\ response.num_errors = Len(response.changes)
    /\ response.score = IF 10 - response.num_errors > 0 THEN 10 - response.num_errors ELSE 0
    /\ 0 <= response.score /\ response.score <= 10
    /\ response.score = 10 - (IF response.num_errors < 10 THEN response.num_errors ELSE 10)
    /\ \A m \in 0 .. response.num_errors :
         10 - (IF m < 10 THEN m ELSE 10) >= response.score
    /\ response.has_errors <=> response.num_errors > 0

\* a result with more than 10 edits, scored 0
C3_Witness ==
  /\ response.status = 200
  /\ response.num_errors > 10
  /\ response.score = 0

\* C4 (amended): identify_changes never returns more than 50 edits, and for
\* a pair whose alignment has more than 50 non-equal opcodes it returns
\* exactly 50 edits.
C4_Cap ==
  result.called =>
    /\ Len(result.changes) <= 50
    /\ Cardinality(NonEqual) > 50 => Len(result.changes) = 50

\* an alignment with more than 50 non-equal opcodes, cut to 50 edits
C4_Witness ==
  /\ result.called
  /\ Cardinality(NonEqual) > 50
  /\ Len(result.changes) = 50

\* the tokens of the longer sequence that no "equal" opcode matches
TokenLevelDifferences ==
  Max({Len(o_tokens), Len(c_tokens)})
    - Cardinality({i \in 0 .. Len(o_tokens) - 1 :
                     \E k \in DOMAIN opcodes :
                       /\ opcodes[k].tag = "equal"
                       /\ opcodes[k].i1 <= i /\ i < opcodes[k].i2})

\* C4 as stated: identify_changes never returns more than 50 edits, and for
\* a pair with more than 50 token-level differences it returns exactly 50.
C4_AsStated ==
  result.called =>
    /\ Len(result.changes) <= 50
    /\ TokenLevelDifferences > 50 => Len(result.changes) = 50

\* C5: identify_changes returns an edit list and never raises, for every
\* pair of texts and every classifier (absent, answering, raising); for two
\* empty texts the list is empty.
C5_NeverRaises ==
  result.called =>
    /\ ~result.raised
    /\ (original = <<>> /\ corrected = <<>>) => result.changes = <<>>

\* a direct call that returned edits although every predict call raised
C5_Witness ==
  /\ op = "identify_changes"
  /\ error_clf = "clf_raises"
  /\ ~result.raised
  /\ result.changes # <<>>

\* C6: when the classifier is not loaded, or is None, or its predict call
\* raises on the edit, the edit's error_type is the heuristic's label for
\* that edit, and nothing is raised.
C6_Fallback ==
  result.called =>
    /\ ~result.raised
    /\ \A k \in DOMAIN result.changes :
         ( \/ ~error_clf_loaded
           \/ error_clf = "None"
           \/ Predict(error_clf,
                      _normalize_pair_for_clf(result.changes[k].from,
                                              result.changes[k].to)).raised )
         => result.changes[k].error_type = _predict_error_type_heuristic(ChangeOf(k))

\* an edit labelled agreement/plural by the heuristic after the predict call
\* of a loaded classifier raised on it
C6_Witness ==
  /\ result.called
  /\ error_clf = "clf_flaky"
  /\ \E k \in DOMAIN result.changes :
       /\ Predict(error_clf, _normalize_pair_for_clf(result.changes[k].from,
                                                     result.changes[k].to)).raised
       /\ result.changes[k].error_type = "agreement/plural"

\* the text "INC: <from> || COR: <to>" of an edit, a none side empty
C7_Encoding(k) ==
  <<"I", "N", "C", ":", " ">>
    \o (IF result.changes[k].from = None THEN <<>> ELSE result.changes[k].from[1])
    \o <<" ", "|", "|", " ", "C", "O", "R", ":", " ">>
    \o (IF result.changes[k].to = None THEN <<>> ELSE result.changes[k].to[1])

\* C7: when the classifier is loaded and predict does not fail on
\* "INC: <from> || COR: <to>" (a none side empty), the edit's error_type is
\* the label predict returns for that text.
C7_Verbatim ==
  (result.called /\ error_clf_loaded /\ error_clf # "None") =>
    \A k \in DOMAIN result.changes :
      ~Predict(error_clf, C7_Encoding(k)).raised
        => result.changes[k].error_type = Predict(error_clf, C7_Encoding(k)).label

\* an added edit (from is none) whose label comes from the classifier and
\* differs from the heuristic's
C7_Witness ==
  /\ result.called
  /\ error_clf = "clf_ok"
  /\ \E k \in DOMAIN result.changes :
       /\ result.changes[k].from = None
       /\ result.changes[k].error_type = Predict(error_clf, C7_Encoding(k)).label
       /\ result.changes[k].error_type # _predict_error_type_heuristic(ChangeOf(k))

\* the 11 labels of the taxonomy
Taxonomy ==
  { "agreement/plural", "articles/determiners", "verb tense/form", "prepositions",
    "spelling", "word choice/form", "missing word", "unnecessary word",
    "punctuation", "word order", "other" }

\* C8: every edit identify_changes returns has an error_type among the 11
\* labels of the taxonomy, whether the classifier or the heuristic gave it.
C8_Taxonomy ==
  result.called =>
    \A k \in DOMAIN result.changes : result.changes[k].error_type \in Taxonomy

\* a list with a label only the classifier gives and a label the heuristic
\* gave after predict raised
C8_Witness ==
  /\ result.called
  /\ error_clf = "clf_flaky"
  /\ \E k \in DOMAIN result.changes :
       /\ ~Predict(error_clf, C7_Encoding(k)).raised
       /\ result.changes[k].error_type \in
            {"verb tense/form", "prepositions", "spelling", "word choice/form",
             "punctuation", "word order"}
  /\ \E k \in DOMAIN result.changes : Predict(error_clf, C7_Encoding(k)).raised

\* a side of a change trimmed and lower-cased, a none side empty
Folded(x) == IF x = None THEN <<>> ELSE Lower(Strip(x[1]))

\* c is o plus "s", o plus "es", or o without its final "y" plus "ies"
PluralOf(o, c) ==
  \/ c = o \o <<"s">>
  \/ c = o \o <<"e", "s">>
  \/ /\ o # <<>>
     /\ o[Len(o)] = "y"
     /\ c = SubSeq(o, 1, Len(o) - 1) \o <<"i", "e", "s">>

\* the five rules in order, on the texts o and c
RuleLabel(kind, o, c, article, plural) ==
  IF kind = "added" /\ article THEN "articles/determiners"
  ELSE IF kind = "replaced" /\ plural THEN "agreement/plural"
  ELSE IF kind = "added" THEN "missing word"
  ELSE IF kind = "deleted" THEN "unnecessary word"
  ELSE "other"

\* C9 (amended): the heuristic labels every change by the first matching
\* rule in the order (1) added article, (2) replaced plural, (3) added,
\* (4) deleted, (5) other, where both the article check and the plural
\* check read the texts trimmed and lower-cased, and the plural check needs
\* a non-empty original.
C9_Rules ==
  pc = "labelled" =>
    h_label = RuleLabel(h_change.type, Folded(h_change.from), Folded(h_change.to),
                        Folded(h_change.to) \in { <<"a">>, <<"a", "n">>, <<"t", "h", "e">> },
                        /\ Folded(h_change.from) # <<>>
                        /\ PluralOf(Folded(h_change.from), Folded(h_change.to)))

\* "city" replaced by "cities", labelled by the y -> ies form of rule 2
C9_Witness ==
  /\ pc = "labelled"
  /\ h_change = [type |-> "replaced", from |-> Some(<<"c", "i", "t", "y">>),
                 to |-> Some(<<"c", "i", "t", "i", "e", "s">>)]
  /\ h_label = "agreement/plural"

\* a change as identify_changes builds it: added has no from, deleted has no
\* to, replaced has both, and a text is neither empty nor padded
IsText(x) == x # None /\ x[1] # <<>> /\ Strip(x[1]) = x[1]

WellFormed(change) ==
  \/ change.type = "added" /\ change.from = None /\ IsText(change.to)
  \/ change.type = "deleted" /\ IsText(change.from) /\ change.to = None
  \/ change.type = "replaced" /\ IsText(change.from) /\ IsText(change.to)

\* C9 as stated: the same rules, the plural check of rule 2 comparing the
\* corrected text with the original text as they are.
C9_AsStated ==
  (pc = "labelled" /\ WellFormed(h_change)) =>
    h_label = RuleLabel(h_change.type, Folded(h_change.from), Folded(h_change.to),
                        Folded(h_change.to) \in { <<"a">>, <<"a", "n">>, <<"t", "h", "e">> },
                        /\ h_change.from # None /\ h_change.to # None
                        /\ PluralOf(h_change.from[1], h_change.to[1]))

\* C10 (amended): the heuristic folds case in the article check and in the
\* plural check alike: an added change is labelled articles/determiners
\* exactly when its lower-cased text is a, an or the, and a replaced change
\* is labelled agreement/plural exactly when the lower-cased corrected text
\* is the lower-cased original plus "s" or "es" (or its y -> ies form).
C10_FoldsBoth ==
  pc = "labelled" =>
    /\ h_change.type = "added" =>
         ( h_label = "articles/determiners"
           <=> Folded(h_change.to) \in { <<"a">>, <<"a", "n">>, <<"t", "h", "e">> } )
    /\ h_change.type = "replaced" =>
         ( h_label = "agreement/plural"
           <=> /\ Folded(h_change.from) # <<>>
               /\ PluralOf(Folded(h_change.from), Folded(h_change.to)) )

\* "Cat" replaced by "cats": a plural only after case folding
C10_Witness ==
  /\ pc = "labelled"
  /\ h_change = [type |-> "replaced", from |-> Some(<<"C", "a", "t">>), to |-> Some(CATS)]
  /\ h_label = "agreement/plural"

\* C10 as stated: a replaced change is labelled agreement/plural only when
\* the corrected text is character for character the original plus "s" or
\* "es" (or its y -> ies form).
C10_AsStated ==
  (pc = "labelled" /\ WellFormed(h_change) /\ h_change.type = "replaced"
     /\ h_label = "agreement/plural") =>
    PluralOf(h_change.from[1], h_change.to[1])

\* the returned edits without their tips
Edits ==
  [k \in DOMAIN result.changes |->
     [type |-> result.changes[k].type, from |-> result.changes[k].from,
      to |-> result.changes[k].to, error_type |-> result.changes[k].error_type]]

\* identify_changes has returned for these two texts, no classifier loaded
Detected_(orig, corr) ==
  /\ result.called
  /\ ~error_clf_loaded
  /\ original = orig
  /\ corrected = corr

\* C11 (amended): with no classifier, "one cat" against "two cats" gives one
\* replaced edit from "one cat" to "two cats" with category other (the two
\* adjacent differing tokens are one edit), and "the cat" against "the cats"
\* gives one replaced edit from "cat" to "cats" with agreement/plural.
C11_Plural ==
  /\ Detected_(JoinSpace(<<ONE, CAT>>), JoinSpace(<<TWO, CATS>>)) =>
       Edits = << [type |-> "replaced", from |-> Some(JoinSpace(<<ONE, CAT>>)),
                   to |-> Some(JoinSpace(<<TWO, CATS>>)), error_type |-> "other"] >>
  /\ Detected_(JoinSpace(<<THE, CAT>>), JoinSpace(<<THE, CATS>>)) =>
       Edits = << [type |-> "replaced", from |-> Some(CAT), to |-> Some(CATS),
                   error_type |-> "agreement/plural"] >>

\* the call on "one cat" and "two cats" has returned one edit
C11_Witness ==
  /\ Detected_(JoinSpace(<<ONE, CAT>>), JoinSpace(<<TWO, CATS>>))
  /\ Len(result.changes) = 1

\* C11 as stated: with no classifier, "one cat" against "two cats" gives one
\* replaced edit from "cat" to "cats" with category agreement/plural.
C11_AsStated ==
  Detected_(JoinSpace(<<ONE, CAT>>), JoinSpace(<<TWO, CATS>>)) =>
    Edits = << [type |-> "replaced", from |-> Some(CAT), to |-> Some(CATS),
                error_type |-> "agreement/plural"] >>

\* no token occurs twice in seq
Distinct(seq) == \A i, j \in DOMAIN seq : i # j => seq[i] # seq[j]

\* long is short with one token put after its first k tokens
IsInsertion(short, long, k) ==
  /\ Len(long) = Len(short) + 1
  /\ k \in 0 .. Len(short)
  /\ long = SubSeq(short, 1, k) \o <<long[k + 1]>> \o SubSeq(short, k + 1, Len(short))

\* C12 (amended): with no classifier, when the tokens of the original are
\* pairwise distinct and the corrected tokens are the original tokens with
\* one article token (a, an or the) inserted, identify_changes returns
\* exactly one edit: added, from none, to the article, category
\* articles/determiners.
C12_ArticleAdded ==
  (result.called /\ ~error_clf_loaded /\ Distinct(o_tokens)) =>
    \A k \in 0 .. Len(o_tokens) :
      ( /\ IsInsertion(o_tokens, c_tokens, k)
        /\ c_tokens[k + 1] \in { <<"a">>, <<"a", "n">>, <<"t", "h", "e">> } )
      => Edits = << [type |-> "added", from |-> None, to |-> Some(c_tokens[k + 1]),
                     error_type |-> "articles/determiners"] >>

\* "I saw dog" against "I saw a dog" has returned one edit
C12_Witness ==
  /\ Detected_(JoinSpace(<< <<"I">>, SAW, DOG >>), JoinSpace(<< <<"I">>, SAW, A, DOG >>))
  /\ Len(result.changes) = 1
  /\ result.changes[1].to = Some(A)

\* C12 as stated: the same for every original, its tokens distinct or not.
C12_AsStated ==
  (result.called /\ ~error_clf_loaded) =>
    \A k \in 0 .. Len(o_tokens) :
      ( /\ IsInsertion(o_tokens, c_tokens, k)
        /\ c_tokens[k + 1] \in { <<"a">>, <<"a", "n">>, <<"t", "h", "e">> } )
      => Edits = << [type |-> "added", from |-> None, to |-> Some(c_tokens[k + 1]),
                     error_type |-> "articles/determiners"] >>

\* C13 (amended): with no classifier, when the corrected tokens are the
\* original tokens with one token removed and the tokens that remain are
\* pairwise distinct, identify_changes returns exactly one edit: deleted,
\* from the removed token, to none, category unnecessary word.
C13_TokenDeleted ==
  (result.called /\ ~error_clf_loaded /\ Distinct(c_tokens)) =>
    \A k \in 0 .. Len(c_tokens) :
      IsInsertion(c_tokens, o_tokens, k)
      => Edits = << [type |-> "deleted", from |-> Some(o_tokens[k + 1]), to |-> None,
                     error_type |-> "unnecessary word"] >>

\* "very very happy" against "very happy" has returned one edit
C13_Witness ==
  /\ Detected_(JoinSpace(<<VERY, VERY, HAPPY>>), JoinSpace(<<VERY, HAPPY>>))
  /\ Len(result.changes) = 1
  /\ result.changes[1].from = Some(VERY)

\* C13 as stated: the same for every pair one removed token apart.
C13_AsStated ==
  (result.called /\ ~error_clf_loaded) =>
    \A k \in 0 .. Len(c_tokens) :
      IsInsertion(c_tokens, o_tokens, k)
      => Edits = << [type |-> "deleted", from |-> Some(o_tokens[k + 1]), to |-> None,
                     error_type |-> "unnecessary word"] >>

\* C14: with no classifier, "a letter" against "the letter" gives a single
\* replaced edit from "a" to "the" with category other, and every replaced
\* edit whose two sides are different articles has category other.
C14_ArticleReplaced ==
  /\ Detected_(JoinSpace(<<A, LETTER>>), JoinSpace(<<THE, LETTER>>)) =>
       Edits = << [type |-> "replaced", from |-> Some(A), to |-> Some(THE),
                   error_type |-> "other"] >>
  /\ (result.called /\ ~error_clf_loaded) =>
       \A k \in DOMAIN Edits :
         ( /\ Edits[k].type = "replaced"
           /\ Edits[k].from \in {Some(A), Some(AN), Some(THE)}
           /\ Edits[k].to \in {Some(A), Some(AN), Some(THE)}
           /\ Edits[k].from # Edits[k].to )
         => Edits[k].error_type = "other"

\* "a letter" against "the letter" has returned a replaced edit
C14_Witness ==
  /\ Detected_(JoinSpace(<<A, LETTER>>), JoinSpace(<<THE, LETTER>>))
  /\ Len(result.changes) = 1
  /\ result.changes[1].type = "replaced"

\* C15: every edit identify_changes returns is well-shaped: a deleted edit
\* has a non-empty from and no to, an added edit has no from and a non-empty
\* to, a replaced edit has both, non-empty and different from each other
\* (the texts are the ones left by the punctuation cleanup).
C15_WellShaped ==
  result.called =>
    \A k \in DOMAIN result.changes :
      /\ result.changes[k].type \in {"deleted", "added", "replaced"}
      /\ result.changes[k].type = "deleted" =>
           /\ result.changes[k].from \notin {None, Some(<<>>)}
           /\ result.changes[k].to = None
      /\ result.changes[k].type = "added" =>
           /\ result.changes[k].from = None
           /\ result.changes[k].to \notin {None, Some(<<>>)}
      /\ result.changes[k].type = "replaced" =>
           /\ result.changes[k].from \notin {None, Some(<<>>)}
           /\ result.changes[k].to \notin {None, Some(<<>>)}
           /\ result.changes[k].from # result.changes[k].to

\* a returned list with a replaced edit and an edit of another kind
C15_Witness ==
  /\ result.called
  /\ \E k \in DOMAIN result.changes : result.changes[k].type = "replaced"
  /\ \E k \in DOMAIN result.changes : result.changes[k].type # "replaced"

\* the non-equal opcodes in their order
C16_Opcodes == SelectSeq(opcodes, LAMBDA oc : oc.tag # "equal")

\* tokens[lo:hi] written one after the other, a single space before every
\* token but the first one and the commas and periods
C16_Text(tokens, lo, hi) ==
  Iterate(LAMBDA k, st : IF k = lo + 1 THEN tokens[k]
                         ELSE IF tokens[k] \in {COMMA, PERIOD} THEN st \o tokens[k]
                         ELSE st \o <<" ">> \o tokens[k],
          lo + 1, hi, <<>>)

\* no space of the text stands immediately before a comma or a period
C16_Clean(text) ==
  \A p \in 1 .. Len(text) - 1 : text[p] = " " => text[p + 1] \notin {",", "."}

\* C16: no from or to text of a returned edit has a space immediately before
\* a comma or a period, and the text is the tokens of the sub-range of the
\* edit's opcode joined by single spaces except that no space precedes a
\* comma or a period.
C16_Punctuation ==
  result.called =>
    \A k \in DOMAIN result.changes :
      /\ result.changes[k].from # None =>
           /\ C16_Clean(result.changes[k].from[1])
           /\ result.changes[k].from[1]
                = C16_Text(o_tokens, C16_Opcodes[k].i1, C16_Opcodes[k].i2)
      /\ result.changes[k].to # None =>
           /\ C16_Clean(result.changes[k].to[1])
           /\ result.changes[k].to[1]
                = C16_Text(c_tokens, C16_Opcodes[k].j1, C16_Opcodes[k].j2)

\* an edit whose from text lost the space before a comma and the one before
\* a period
C16_Witness ==
  /\ result.called
  /\ \E k \in DOMAIN result.changes :
       /\ result.changes[k].from # None
       /\ \E p, q \in 2 .. Len(result.changes[k].from[1]) :
            /\ result.changes[k].from[1][p] = ","
            /\ result.changes[k].from[1][q] = "."
            /\ result.changes[k].from[1][p - 1] # " "
            /\ result.changes[k].from[1][q - 1] # " "

\* the tokens written one after the other
C17_Concat(tokens) ==
  Iterate(LAMBDA k, st : st \o tokens[k], 1, Len(tokens), <<>>)

\* C17: _wp_tokenize loses no non-whitespace character: the tokens hold no
\* whitespace and, written one after the other, they are the input with all
\* whitespace removed; the empty string gives no token.
C17_AsStated ==
  pc = "tokenized" =>
    /\ \A k \in DOMAIN o_tokens :
         o_tokens[k] # <<>> /\ \A p \in DOMAIN o_tokens[k] : ~IsSpace(o_tokens[k][p])
    /\ C17_Concat(o_tokens) = SelectSeq(original, LAMBDA c : ~IsSpace(c))
    /\ original = <<>> => o_tokens = <<>>

\* the entry of the label in the table, the entry of other for a label that
\* is not one of the 11
C18_Tip(table, label) == IF label \in Taxonomy THEN table[label] ELSE table["other"]

\* C18: the feedback mapper is a total lookup: for a label of the taxonomy
\* the tip is the label's entry in MICRO_FEEDBACK, for any other label it is
\* the entry of other, and a tip always comes back; every returned edit's
\* micro_feedback is the tip of that edit's error_type.
C18_TotalLookup ==
  /\ (pc = "tip" /\ op = "_micro_feedback_for") =>
       fb_tip = C18_Tip(MICRO_FEEDBACK, fb_label) /\ fb_tip # ""
  /\ (pc = "tip" /\ op = "micro_feedback_for") =>
       fb_tip = C18_Tip(TRAIN_MICRO_FEEDBACK, fb_label) /\ fb_tip # ""
  /\ result.called =>
       \A k \in DOMAIN result.changes :
         result.changes[k].micro_feedback
           = C18_Tip(MICRO_FEEDBACK, result.changes[k].error_type)

\* the server's lookup has answered for a label that is not in the table
C18_Witness ==
  /\ pc = "tip"
  /\ op = "_micro_feedback_for"
  /\ fb_label \notin Taxonomy
  /\ fb_tip = MICRO_FEEDBACK["other"]

\* the corrections of the corpus in corpus order
C19_Triples ==
  Iterate(LAMBDA i, acc : acc \o (IF corpus[i].corrections = None THEN <<>>
                                  ELSE corpus[i].corrections[1]),
          1, Len(corpus), <<>>)

\* a side of a triple after trimming, a missing side being empty
C19_Side(x) == IF x = None THEN <<>> ELSE Strip(x[1])

\* the number of tokens of a text: the positions where a run of word
\* characters starts and the positions of the other non-space characters
C19_TokenCount(text) ==
  Cardinality({p \in DOMAIN text :
                 /\ ~IsSpace(text[p])
                 /\ p = 1 \/ ~IsWordChar(text[p]) \/ ~IsWordChar(text[p - 1])})

\* the triple has a non-empty side and no side of more than 40 tokens
C19_Emits(t) ==
  /\ C19_Side(t.incorrect) # <<>> \/ C19_Side(t.correct) # <<>>
  /\ C19_TokenCount(C19_Side(t.incorrect)) <= 40
  /\ C19_TokenCount(C19_Side(t.correct)) <= 40

\* the entry of the collapse table for the triple's code, other for none
C19_Label(t) ==
  IF \E c \in DOMAIN FCE_TO_FRIENDLY : FceCodeChars[c] = C19_Side(t.error_type)
    THEN FCE_TO_FRIENDLY[CHOOSE c \in DOMAIN FCE_TO_FRIENDLY :
                           FceCodeChars[c] = C19_Side(t.error_type)]
    ELSE "other"

C19_Kept == SelectSeq(C19_Triples, C19_Emits)

\* C19: build_error_type_examples emits exactly one example, in corpus
\* order, for each triple with a non-empty side after trimming and no side
\* longer than 40 tokens, and nothing for the other triples; the text is
\* "INC: <incorrect> || COR: <correct>", the label is the collapse-table
\* entry of the code or other for an unmapped code, a member of the taxonomy.
C19_Examples ==
  pc = "built" =>
    /\ Len(examples.X) = Len(C19_Kept)
    /\ Len(examples.y) = Len(C19_Kept)
    /\ \A k \in DOMAIN C19_Kept :
         /\ examples.X[k] = <<"I", "N", "C", ":", " ">> \o C19_Side(C19_Kept[k].incorrect)
                              \o <<" ", "|", "|", " ", "C", "O", "R", ":", " ">>
                              \o C19_Side(C19_Kept[k].correct)
         /\ examples.y[k] = C19_Label(C19_Kept[k])
         /\ examples.y[k] \in Taxonomy

\* a corpus of two triples, one over the 40 tokens and skipped, the other
\* with an unmapped code and emitted with the label other
C19_Witness ==
  /\ pc = "built"
  /\ Len(C19_Triples) = 2
  /\ Len(examples.X) = 1
  /\ \E k \in DOMAIN C19_Triples : C19_TokenCount(C19_Side(C19_Triples[k].incorrect)) > 40
  /\ \E k \in DOMAIN examples.y :
       examples.y[k] = "other" /\ C19_Kept[k].error_type = Some(<<"X", "X">>)

\* a field of the triple is missing
C20_Malformed(t) == t.error_type = None \/ t.incorrect = None \/ t.correct = None

\* both texts of the triple are missing or blank, or one is over 40 tokens
C20_Skipped(t) ==
  \/ /\ t.incorrect = None \/ Strip(t.incorrect[1]) = <<>>
     /\ t.correct = None \/ Strip(t.correct[1]) = <<>>
  \/ ~C19_Emits(t)

C20_Kept == SelectSeq(C19_Triples, LAMBDA t : ~C20_Skipped(t))

\* C20 (amended): a triple with a missing field is not skipped for that: a
\* missing error_type gives the label other and a missing text is the empty
\* text; the triple is skipped only when both of its texts are missing or
\* blank (or a side has more than 40 tokens).  No exception is raised and
\* every other triple of the batch is processed.
C20_MissingFields ==
  pc = "built" =>
    /\ ~examples.raised
    /\ Len(examples.X) = Len(C20_Kept)
    /\ Len(examples.y) = Len(C20_Kept)
    /\ \A k \in DOMAIN C20_Kept :
         /\ C20_Kept[k].error_type = None => examples.y[k] = "other"
         /\ C20_Kept[k].incorrect = None =>
              examples.X[k] = <<"I", "N", "C", ":", " ", " ", "|", "|", " ", "C", "O", "R", ":", " ">>
                                \o Strip(C20_Kept[k].correct[1])
         /\ C20_Kept[k].correct = None =>
              examples.X[k] = <<"I", "N", "C", ":", " ">> \o Strip(C20_Kept[k].incorrect[1])
                                \o <<" ", "|", "|", " ", "C", "O", "R", ":", " ">>
         /\ ~C20_Malformed(C20_Kept[k]) => examples.y[k] = C19_Label(C20_Kept[k])

\* a triple without error_type has given an example, next to the example of
\* a triple with all its fields
C20_Witness ==
  /\ pc = "built"
  /\ Len(examples.X) = 2
  /\ \E k \in DOMAIN C20_Kept : C20_Kept[k].error_type = None
  /\ \E k \in DOMAIN C20_Kept : ~C20_Malformed(C20_Kept[k])

\* C20 as stated: a triple with a missing field gives no example; the
\* examples are those of the triples with all their fields.
C20_AsStated ==
  pc = "built" =>
    /\ ~examples.raised
    /\ Len(examples.X)
         = Len(SelectSeq(C19_Triples, LAMBDA t : ~C20_Malformed(t) /\ C19_Emits(t)))

\* the edit list of a pair whose alignment has exactly 50 non-equal opcodes
\* ("the cat" 50 times against "the cats" 50 times): a complete result
C21_Complete ==
  identify_changes(Rep(THE \o <<" ">> \o CAT, 50), Rep(THE \o <<" ">> \o CATS, 50)).changes

\* C21: when the alignment has more non-equal opcodes than the cap, the
\* result is a truncation that the caller can tell from a complete result of
\* exactly 50 edits: nothing is raised, and the returned list is not the list
\* returned for a pair with exactly 50 differences.
C21_AsStated ==
  (result.called /\ Cardinality(NonEqual) > 50) =>
    /\ ~result.raised
    /\ Len(result.changes) = 50
    /\ result.changes # C21_Complete

\* C22: when the classifier fails to load at startup after the correction
\* model has loaded, startup completes with loaded true, error_clf_loaded
\* false and error_clf None, and every later request is served, with the
\* heuristic's category on every edit.
C22_NoClassifier ==
  (pc # "boot" /\ loaded /\ ~error_clf_loaded) =>
    /\ error_clf = "None"
    /\ (pc = "returned" /\ op = "correct") => response.status \in {200, 400}
    /\ result.called =>
         /\ ~result.raised
         /\ response.status = 200 => response.changes = result.changes
         /\ \A k \in DOMAIN result.changes :
              result.changes[k].error_type = _predict_error_type_heuristic(ChangeOf(k))

\* POST /correct answered with edits by a service whose classifier did not
\* load
C22_Witness ==
  /\ loaded
  /\ ~error_clf_loaded
  /\ op = "correct"
  /\ response.status = 200
  /\ response.changes # <<>>

IsSubstitution(a, b, k) ==
  /\ Len(a) = Len(b)
  /\ k \in DOMAIN a
  /\ a[k] # b[k]
  /\ \A i \in DOMAIN a : i # k => a[i] = b[i]

\* the edits without their categories
C24_Edits ==
  [k \in DOMAIN result.changes |->
     [type |-> result.changes[k].type, from |-> result.changes[k].from,
      to |-> result.changes[k].to]]

\* C24 (amended): when the corrected tokens are the original tokens with one
\* token replaced by a different one, and no token occurs twice in the
\* original nor in the corrected sequence, identify_changes returns exactly
\* one edit, replaced, from the old token to the new one (never a deleted
\* edit plus an added edit).
C24_Substitution ==
  (result.called /\ Distinct(o_tokens) /\ Distinct(c_tokens)) =>
    \A k \in DOMAIN o_tokens :
      IsSubstitution(o_tokens, c_tokens, k)
      => C24_Edits = << [type |-> "replaced", from |-> Some(o_tokens[k]),
                         to |-> Some(c_tokens[k])] >>

\* a substitution in the middle of three distinct tokens has returned
C24_Witness ==
  /\ result.called
  /\ Len(o_tokens) = 3
  /\ Distinct(o_tokens)
  /\ Distinct(c_tokens)
  /\ IsSubstitution(o_tokens, c_tokens, 2)
  /\ Len(result.changes) = 1

\* C24 as stated: the same for every substitution of one token, with
\* repeated tokens or not.
C24_AsStated ==
  result.called =>
    \A k \in DOMAIN o_tokens :
      IsSubstitution(o_tokens, c_tokens, k)
      => C24_Edits = << [type |-> "replaced", from |-> Some(o_tokens[k]),
                         to |-> Some(c_tokens[k])] >>

\* the kind of edit of an opcode
C25_Kind(tag) ==
  IF tag = "replace" THEN "replaced" ELSE IF tag = "delete" THEN "deleted" ELSE "added"

\* C25: the edit list is the image, in alignment order, of the first
\* min(50, k) of the k non-equal opcodes: replace gives replaced, delete gives
\* deleted with to none, insert gives added with from none, each with the
\* text of its own opcode; equal opcodes give nothing; _predict_error_type
\* (and with it the classifier) is called once per returned edit, so at most
\* 50 times.
C25_Image ==
  result.called =>
    /\ ~result.raised
    /\ Len(result.changes) = Min({50, Len(C16_Opcodes)})
    /\ result.consulted = Len(result.changes)
    /\ result.consulted <= 50
    /\ \A k \in DOMAIN result.changes :
         /\ result.changes[k].type = C25_Kind(C16_Opcodes[k].tag)
         /\ result.changes[k].from
              = IF C16_Opcodes[k].tag = "insert" THEN None
                ELSE Some(C16_Text(o_tokens, C16_Opcodes[k].i1, C16_Opcodes[k].i2))
         /\ result.changes[k].to
              = IF C16_Opcodes[k].tag = "delete" THEN None
                ELSE Some(C16_Text(c_tokens, C16_Opcodes[k].j1, C16_Opcodes[k].j2))

\* a call with a classifier on an alignment of more than 50 non-equal
\* opcodes between equal ones, returned after 50 calls of the attribution
C25_Witness ==
  /\ result.called
  /\ error_clf_loaded
  /\ Len(C16_Opcodes) > 50
  /\ Len(opcodes) > Len(C16_Opcodes)
  /\ result.consulted = 50

\* the length of the token the rule starts at position p of s: a maximal
\* run of letters with at most one apostrophe-and-letters group after it, a
\* maximal run of digits, or one character that is not whitespace; 0 on
\* whitespace
C26_TokenLen(s, p) ==
  IF IsSpace(s[p]) THEN 0
  ELSE IF IsLetter(s[p])
    THEN LET e == CHOOSE q \in p .. Len(s) :
                    /\ \A i \in p .. q : IsLetter(s[i])
                    /\ q = Len(s) \/ ~IsLetter(s[q + 1])
         IN  IF e + 2 <= Len(s) /\ s[e + 1] = "'" /\ IsLetter(s[e + 2])
               THEN (CHOOSE q \in e + 2 .. Len(s) :
                       /\ \A i \in e + 2 .. q : IsLetter(s[i])
                       /\ q = Len(s) \/ ~IsLetter(s[q + 1])) - p + 1
               ELSE e - p + 1
  ELSE IF IsDigit(s[p])
    THEN (CHOOSE q \in p .. Len(s) :
            /\ \A i \in p .. q : IsDigit(s[i])
            /\ q = Len(s) \/ ~IsDigit(s[q + 1])) - p + 1
  ELSE 1

\* the tokens of s by the rule, from left to right
C26_Tokens(s) ==
  Iterate(LAMBDA k, st :
            IF k # st.p THEN st
            ELSE IF C26_TokenLen(s, k) = 0 THEN [p |-> k + 1, out |-> st.out]
            ELSE [p   |-> k + C26_TokenLen(s, k),
                  out |-> Append(st.out, SubSeq(s, k, k + C26_TokenLen(s, k) - 1))],
          1, Len(s), [p |-> 1, out |-> <<>>]).out

\* C26: _wp_tokenize groups characters by maximal munch: a maximal run of
\* letters with at most one apostrophe-and-letters group is one token, a
\* maximal run of digits is one token, every other non-whitespace character
\* is a token of one character; no token is empty or holds whitespace.
C26_AsStated ==
  pc = "tokenized" =>
    /\ o_tokens = C26_Tokens(original)
    /\ \A k \in DOMAIN o_tokens :
         o_tokens[k] # <<>> /\ \A p \in DOMAIN o_tokens[k] : ~IsSpace(o_tokens[k][p])

\* C27: when the classifier is absent or its predict call raises on the
\* edit, predict_error_type_for_change returns what the server's
\* _predict_error_type returns: the label of the five-rule heuristic.
C27_AsStated ==
  ( /\ h_label # ""
    /\ attr.pc = "done"
    /\ \/ error_clf = "None"
       \/ Predict(error_clf, _normalize_pair_for_clf(h_change.from, h_change.to)).raised )
  => /\ attr.label = h_label
     /\ attr.label = _predict_error_type_heuristic(h_change)

\* C28: calls of identify_changes in progress at once do not interfere:
\* whatever the order of their steps, each returns the edit list it returns
\* when it runs alone against the same classifier, and no step of a call
\* changes a field of the ModelManager.
C28_Isolation ==
  /\ [](\A i \in Requests :
          calls[i].pc = "done" =>
            calls[i].st.changes
              = identify_changes(calls[i].original, calls[i].corrected).changes)
  /\ [][UNCHANGED << loaded, error_clf, error_clf_loaded >>]_vars

\* two calls on different pairs have returned edits, the first one having
\* started first and returned last
C28_Witness ==
  /\ calls[1].pc = "done"
  /\ calls[2].pc = "done"
  /\ calls[1].original # calls[2].original
  /\ calls[1].st.changes # <<>>
  /\ calls[2].st.changes # <<>>
  /\ calls[1].st.changes # calls[2].st.changes

\* the answer of predict on edit k of the returned list
C29_Predict(k) == Predict(error_clf, C7_Encoding(k))

\* C29: classifier or heuristic is chosen for each edit on its own: with a
\* classifier loaded, every edit of the returned list is submitted, an edit
\* predict raised on has the heuristic's label, and every other edit has the
\* label predict gave it, whatever happened to the edits before it.
C29_PerEdit ==
  (result.called /\ error_clf_loaded /\ error_clf # "None") =>
    /\ ~result.raised
    /\ result.consulted = Len(result.changes)
    /\ \A k \in DOMAIN result.changes :
         result.changes[k].error_type
           = IF C29_Predict(k).raised
               THEN _predict_error_type_heuristic(ChangeOf(k))
               ELSE C29_Predict(k).label

\* predict raised on an edit, and a later edit of the same list has the
\* classifier's label, which is not the label the heuristic gives it
C29_Witness ==
  /\ result.called
  /\ error_clf_loaded
  /\ \E j, k \in DOMAIN result.changes :
       /\ j < k
       /\ C29_Predict(j).raised
       /\ ~C29_Predict(k).raised
       /\ result.changes[k].error_type = C29_Predict(k).label
       /\ result.changes[k].error_type # _predict_error_type_heuristic(ChangeOf(k))

\* C30: identify_changes returns the empty list exactly when the token
\* sequences of the original and of the corrected text are equal: texts that
\* differ in whitespace only give no edit, and token sequences that differ
\* give at least one.
C30_EmptyIffEqual ==
  result.called =>
    /\ ~result.raised
    /\ (result.changes = <<>>) <=> (o_tokens = c_tokens)

\* two different texts with the same tokens, and no edit
C30_Witness ==
  /\ result.called
  /\ original # corrected
  /\ o_tokens = c_tokens
  /\ o_tokens # <<>>
  /\ result.changes = <<>>

====
